---- MODULE Spec2Model ----
(***************************************************************************)
(* A model of the i2p-client library: the SAM session-bridge client        *)
(* (src/src/sam.ts), the I2CP router-control client                        *)
(* (src/src/clients/sam/sam-utils.ts) and the receive side of the          *)
(* streaming engine.  Every subsystem has its own variables, its own       *)
(* next-state relation and its own specification; all specifications       *)
(* start from the same Init.                                               *)
(*                                                                         *)
(* Byte strings are modelled as sequences of lexemes.  A lexeme is either  *)
(* a single byte (" ", "\n", "=", a decimal digit, "x") or a word that     *)
(* contains none of the separator bytes ("FROM_PORT", "dA", ...).          *)
(***************************************************************************)
EXTENDS Integers, Sequences, FiniteSets, TLC

VARIABLES
  \* ---- DatagramServer (src/src/sam.ts 539-575) and the subsession bound to it
  dgStyle,          \* "none" | "DATAGRAM" | "RAW": the subsession owning the UDP listener
  dgListenPort,     \* the fromPort argument the subsession was created with (Undefined when omitted)
  dgExpectedToPort, \* DatagramServer's expectedToPort argument
  dgLastMsg,        \* the UDP datagram handled last
  dgLastWire,       \* what the bridge put into it: [repliable, toPort]
  dgEmitted,        \* the events emitted while handling dgLastMsg
  dgSeen            \* whether the listener has handled a datagram yet

dgVars == <<dgStyle, dgListenPort, dgExpectedToPort, dgLastMsg, dgLastWire,
            dgEmitted, dgSeen>>

VARIABLES
  \* ---- StreamSession and its StreamAcceptSockets (src/src/sam.ts 311-509)
  acCreated,        \* whether the STREAM subsession was constructed
  acFromPort,       \* StreamSession.fromPort
  acSockets,        \* the accept sockets in creation order, each a record
  acPending,        \* acceptNext calls scheduled by setImmediate / setTimeout
  acEvents          \* the session's "stream" events: [sock, destination]

acVars == <<acCreated, acFromPort, acSockets, acPending, acEvents>>

VARIABLES
  ctlEnv,               \* the control socket's TCP connection
  ctlHello,             \* helloCompleted has resolved
  ctlPrimary,           \* primarySessionCreatedProm
  ctlSessionListeners,  \* once("session") listeners, in registration order
  ctlErrorListeners,    \* once("error") listeners
  ctlLookupListeners,   \* once("nameLookupResult") listeners
  ctlWritten,           \* the commands written to the bridge
  ctlAnswered,          \* how many of them the bridge has answered
  ctlRouterIds,         \* the subsession ids the bridge holds
  ctlMap,               \* PrimarySession.subsessionMap
  ctlObjects,           \* the Subsession objects constructed so far
  ctlCache,             \* cachedLookups
  ctlCalls              \* the application's calls and where each stands

ctlVars == <<ctlEnv, ctlHello, ctlPrimary, ctlSessionListeners, ctlErrorListeners,
             ctlLookupListeners, ctlWritten, ctlAnswered, ctlRouterIds, ctlMap,
             ctlObjects, ctlCache, ctlCalls>>

VARIABLES
  i2SessionId,       \* I2CPSession.sessionId
  i2LookupId,        \* I2CPSession.lookupId
  i2LookupHandlers,  \* I2CPSession.lookupHandlers
  i2Cache,           \* lookupCache
  i2Written,         \* the messages written to the router
  i2Router,          \* what the router has sent so far
  i2Calls,           \* the application's calls and where each stands
  i2Stats            \* messagesSent, messagesAccepted, messageLikelySucceeded, messagesFailed

i2Vars == <<i2SessionId, i2LookupId, i2LookupHandlers, i2Cache, i2Written, i2Router, i2Calls,
            i2Stats>>

VARIABLES
  stStreams,   \* I2CPSession.streams: the sockets, in order of creation
  stArrivals   \* the streaming packets that have arrived

stVars == <<stStreams, stArrivals>>

VARIABLES
  i2Ports,     \* I2CPSession.portConnections
  i2Inbox,     \* the events emitted on the I2CPPort listeners
  i2Process,   \* what left the message handlers: unhandled rejections
  i2Socket     \* the TCP socket of the session, socketConnected, the reconnect timers

i2xVars == <<i2Ports, i2Inbox, i2Process, i2Socket>>

VARIABLES
  acCleanups   \* the runs of the process's cleanup handler

VARIABLES
  scSocket     \* the StreamSocket of createStream

VARIABLES
  rtWire,      \* the bytes the router has sent that TCP has not handed over yet
  rtSent,      \* the I2CP messages the router has sent, in order
  rtHandled    \* what routeMessage has dispatched, in order

rtVars == <<rtWire, rtSent, rtHandled>>

VARIABLES
  hsTcp,       \* the I2CP socket: "connecting", "open" or "closed"
  hsQueue,     \* writes the socket holds until it is connected
  hsWire,      \* what reached the router, one sequence per connection attempt
  hsSessionId, \* I2CPSession.sessionId
  hsRouter,    \* what the router has sent on the present connection
  hsEvents     \* the events the session has emitted

hsVars == <<hsTcp, hsQueue, hsWire, hsSessionId, hsRouter, hsEvents>>

VARIABLE
  csStreams    \* the streams made by createStream, and session.streams for them

VARIABLES
  snStreams,   \* the send side of every stream: sentPackets, completion callbacks
  snLastAck    \* the last packet that came in with an acknowledgement

snVars == <<snStreams, snLastAck>>

VARIABLES
  pvChecked,   \* the last packet given to verify, with the answer
  dsParsed,    \* the last destination generated and parsed
  sgChecked,   \* the last signature made and verified
  pmParsed     \* the last line given to parseMessage, with the result

fnVars == <<pvChecked, dsParsed, sgChecked, pmParsed>>

vars == <<dgVars, acVars, ctlVars, i2Vars, stVars, i2xVars, acCleanups, csStreams, hsVars, scSocket, rtVars, snVars, fnVars>>
NotFn == <<dgVars, acVars, ctlVars, i2Vars, stVars, i2xVars, acCleanups, csStreams, hsVars, scSocket, rtVars, snVars>>

\* what the actions of one subsystem leave alone
NotDg == <<acVars, ctlVars, i2Vars, stVars, i2xVars, acCleanups, csStreams, hsVars, scSocket, rtVars, snVars, fnVars>>
NotAc == <<dgVars, ctlVars, i2Vars, stVars, i2xVars, acCleanups, csStreams, hsVars, scSocket, rtVars, snVars, fnVars>>
NotCtl == <<dgVars, acVars, i2Vars, stVars, i2xVars, acCleanups, csStreams, hsVars, scSocket, rtVars, snVars, fnVars>>
\* the lookup and send side of the I2CP session leaves its receive side alone
NotI2 == <<dgVars, acVars, ctlVars, stVars, i2xVars, acCleanups, csStreams, hsVars, scSocket, rtVars, snVars, fnVars>>
NotI2x == <<dgVars, acVars, ctlVars, stVars, acCleanups, csStreams, hsVars, scSocket, rtVars, snVars, fnVars>>
NotSt == <<dgVars, acVars, ctlVars, i2Vars, i2xVars, acCleanups, csStreams, hsVars, scSocket, rtVars, snVars, fnVars>>
NotSn == <<dgVars, acVars, ctlVars, i2Vars, stVars, i2xVars, acCleanups, csStreams, hsVars, scSocket, rtVars, fnVars>>
NotSc == <<dgVars, acVars, ctlVars, i2Vars, stVars, i2xVars, acCleanups, csStreams, hsVars, rtVars, snVars, fnVars>>
NotHs == <<dgVars, acVars, ctlVars, i2Vars, stVars, i2xVars, acCleanups, csStreams, scSocket, rtVars, snVars, fnVars>>
NotCs == <<dgVars, acVars, ctlVars, i2Vars, stVars, i2xVars, acCleanups, hsVars, scSocket, rtVars, snVars, fnVars>>
NotRt == <<dgVars, acVars, ctlVars, i2Vars, stVars, i2xVars, acCleanups, csStreams, hsVars, scSocket, snVars, fnVars>>

-----------------------------------------------------------------------------
(* Bounds of the model *)

\* the largest I2P port the bridge puts into a header is MaxPort + 12
MaxPort == 2
\* the number of accept sockets a StreamSession opens
MaxAcceptSockets == 2
MaxCalls == 3
MaxStatus == 2
MaxI2Calls == 2
MaxSeq == 3
MaxStreams == 2
MaxArrivals == 6
MaxPayloads == 2
MaxFailures == 1
MaxPings == 1
MaxCleanups == 1
MaxSendSeq == 2
CeilingSteps == 2

-----------------------------------------------------------------------------
(* JavaScript values *)

\* parseInt's result on a string without leading digits
NaN == -1
\* an omitted optional argument / a missing object property
Undefined == -2

\* JavaScript's === on numbers: NaN equals nothing
StrictEq(a, b) == a # NaN /\ b # NaN /\ a = b

SP == " "
NL == "\n"
EQ == "="
QT == "\""
Digits == <<"0", "1", "2", "3", "4", "5", "6", "7", "8", "9">>
DigitSet == {Digits[i] : i \in 1..10}
DigitValue(d) == (CHOOSE i \in 1..10 : Digits[i] = d) - 1
\* lexemes that stand for exactly one byte
SingleByte == {SP, NL, EQ, "x"} \cup DigitSet

RECURSIVE ToDigits(_)
\* `${n}` for a non-negative integer
ToDigits(n) == IF n < 10 THEN <<Digits[n + 1]>>
               ELSE ToDigits(n \div 10) \o <<Digits[(n % 10) + 1]>>

RECURSIVE ParseDigits(_, _)
ParseDigits(s, acc) ==
  IF s = <<>> \/ Head(s) \notin DigitSet THEN acc
  ELSE ParseDigits(Tail(s), acc * 10 + DigitValue(Head(s)))

\* a missing property where a string is expected: parseInt and template
\* literals read it as the text "undefined"
UndefinedStr == <<"undefined">>

\* parseInt(v, 10) of a string without sign or leading blanks, or of undefined
ParseInt(v) ==
  IF v = <<>> \/ Head(v) \notin DigitSet THEN NaN
  ELSE ParseDigits(v, 0)

\* s.indexOf(c), 0-based, -1 when absent
IndexOf(s, c) ==
  IF \E i \in 1..Len(s) : s[i] = c
  THEN (CHOOSE i \in 1..Len(s) : s[i] = c /\ \A j \in 1..(i - 1) : s[j] # c) - 1
  ELSE 0 - 1

\* buf.subarray(start, end) with 0-based start, exclusive end; a negative end
\* counts from the end of the buffer.  Cutting the last byte off a word
\* leaves a word that is no keyword ("junk").
Subarray(s, start, end) ==
  IF end >= 0 THEN SubSeq(s, start + 1, end)
  ELSE IF s = <<>> THEN <<>>
  ELSE IF s[Len(s)] \in SingleByte THEN SubSeq(s, start + 1, Len(s) - 1)
  ELSE SubSeq(s, start + 1, Len(s) - 1) \o <<"junk">>

SubarrayFrom(s, start) == SubSeq(s, start + 1, Len(s))

RECURSIVE Split(_, _)
\* s.split(c): the segments between the occurrences of c
Split(s, c) ==
  LET i == IndexOf(s, c)
  IN IF i < 0 THEN <<s>>
     ELSE <<SubSeq(s, 1, i)>> \o Split(SubSeq(s, i + 2, Len(s)), c)

\* s.includes(a + b) where a is a word and b a single byte
IncludesPair(s, a, b) == \E i \in 1..(Len(s) - 1) : s[i] = a /\ s[i + 1] = b

IsBlank(c) == c \in {SP, NL}
RECURSIVE TrimStart(_)
TrimStart(s) == IF s # <<>> /\ IsBlank(Head(s)) THEN TrimStart(Tail(s)) ELSE s
RECURSIVE TrimEnd(_)
TrimEnd(s) == IF s # <<>> /\ IsBlank(s[Len(s)]) THEN TrimEnd(SubSeq(s, 1, Len(s) - 1)) ELSE s
\* s.trim()
Trim(s) == TrimEnd(TrimStart(s))

\* s.indexOf(c, from)
IndexOfFrom(s, c, from) ==
  LET i == IndexOf(SubarrayFrom(s, from), c)
  IN IF i < 0 THEN i ELSE i + from

\* s.substring(a, b): negative indices count as 0
Substring(s, a, b) ==
  LET a0 == IF a < 0 THEN 0 ELSE a
      b0 == IF b < 0 THEN 0 ELSE b
  IN IF a0 <= b0 THEN SubSeq(s, a0 + 1, b0) ELSE SubSeq(s, b0 + 1, a0)

\* const [key, value] = part.split("="): the key of a KEY=VALUE word
ArgKey(part) == Split(part, EQ)[1]
\* ... and its value, undefined when the word holds no "="
ArgVal(part) == LET kv == Split(part, EQ) IN IF Len(kv) >= 2 THEN kv[2] ELSE UndefinedStr

\* args[name] after `for (...) args[key] = value` over parts[from..]: the
\* last word with that key decides
ArgsGet(parts, from, name) ==
  LET hits == {i \in from..Len(parts) : ArgKey(parts[i]) = <<name>>}
  IN IF hits = {} THEN UndefinedStr
     ELSE ArgVal(parts[CHOOSE i \in hits : \A j \in hits : j <= i])

-----------------------------------------------------------------------------
(* DatagramServer: the UDP listener of a DATAGRAM or RAW subsession *)

\* the I2P ports the bridge's headers carry: 0, 13, 14
Ports == {0} \cup {12 + i : i \in 1..MaxPort}

\* the payloads applications send; a payload is free to hold any bytes
Payloads == {
  <<>>,
  <<"x">>,
  <<"x", NL, "x">>,
  <<"FROM_PORT", EQ, "1", "3">>,
  <<"x", SP, "FROM_PORT", EQ, "1", "3", SP, "TO_PORT", EQ, "1", "3", NL, "x">>
}

\* what the bridge forwards for a repliable datagram:
\* "<dest> FROM_PORT=<n> TO_PORT=<m>\n<payload>"
RepliableWire(dest, fromPort, toPort, payload) ==
  <<dest, SP, "FROM_PORT", EQ>> \o ToDigits(fromPort)
    \o <<SP, "TO_PORT", EQ>> \o ToDigits(toPort) \o <<NL>> \o payload

NoEvent == [type |-> "none", destination |-> <<>>, fromPort |-> NaN,
            toPort |-> NaN, payload |-> <<>>]

\* the handler with the TO_PORT comparison lost: every repliable datagram passes
DatagramServerOnMessageUnfiltered(msg, expectedToPort) ==
  IF IncludesPair(msg, "FROM_PORT", EQ)
  THEN LET firstLineBreak == IndexOf(msg, NL)
           parts == Split(Subarray(msg, 0, firstLineBreak), SP)
       IN <<[type |-> "repliableDatagram", destination |-> parts[1],
             fromPort |-> ParseInt(ArgsGet(parts, 2, "FROM_PORT")),
             toPort |-> ParseInt(ArgsGet(parts, 2, "TO_PORT")),
             payload |-> SubarrayFrom(msg, firstLineBreak + 1)]>>
  ELSE <<[NoEvent EXCEPT !.type = "rawDatagram", !.payload = msg]>>

\* server.on("message", ...): the events emitted for one UDP datagram
DatagramServerOnMessage(msg, expectedToPort) ==
  IF IncludesPair(msg, "FROM_PORT", EQ)
  THEN LET firstLineBreak == IndexOf(msg, NL)
           header == Subarray(msg, 0, firstLineBreak)
           parts == Split(header, SP)
           destination == parts[1]
           payload == SubarrayFrom(msg, firstLineBreak + 1)
           toPort == ParseInt(ArgsGet(parts, 2, "TO_PORT"))
       IN IF expectedToPort = Undefined \/ StrictEq(toPort, expectedToPort)
          THEN <<[type |-> "repliableDatagram", destination |-> destination,
                  fromPort |-> ParseInt(ArgsGet(parts, 2, "FROM_PORT")),
                  toPort |-> toPort, payload |-> payload]>>
          ELSE <<>>
  ELSE <<[NoEvent EXCEPT !.type = "rawDatagram", !.payload = msg]>>

\* `fromPort || 0`
OrZero(p) == IF p = Undefined THEN 0 ELSE p

\* new RepliableDatagramSession({..., fromPort}) hands `this.fromPort` to its server
RepliableExpectedToPort(fromPort) == OrZero(fromPort)
\* new RawDatagramSession({...}) hands undefined to its server
RawExpectedToPort(fromPort) == Undefined

DgInit ==
  /\ dgStyle = "none"
  /\ dgListenPort = Undefined
  /\ dgExpectedToPort = Undefined
  /\ dgLastMsg = <<>>
  /\ dgLastWire = [repliable |-> FALSE, toPort |-> 0]
  /\ dgEmitted = <<>>
  /\ dgSeen = FALSE

\* addSession's "session" listener constructing the DATAGRAM or RAW subsession
DgCreateSubsession(style, fromPort) ==
  /\ dgStyle = "none"
  /\ dgStyle' = style
  /\ dgListenPort' = fromPort
  /\ dgExpectedToPort' = IF style = "DATAGRAM" THEN RepliableExpectedToPort(fromPort)
                         ELSE RawExpectedToPort(fromPort)
  /\ UNCHANGED <<dgLastMsg, dgLastWire, dgEmitted, dgSeen, NotDg>>

\* a repliable datagram forwarded by the bridge arrives at the listener
DgReceiveRepliable(dest, fromPort, toPort, payload) ==
  /\ dgStyle = "DATAGRAM"
  /\ dgLastMsg' = RepliableWire(dest, fromPort, toPort, payload)
  /\ dgLastWire' = [repliable |-> TRUE, toPort |-> toPort]
  /\ dgEmitted' = DatagramServerOnMessage(dgLastMsg', dgExpectedToPort)
  /\ dgSeen' = TRUE
  /\ UNCHANGED <<dgStyle, dgListenPort, dgExpectedToPort, NotDg>>

\* a raw datagram (the payload bytes alone) arrives at the listener
DgReceiveRaw(payload) ==
  /\ dgStyle = "RAW"
  /\ dgLastMsg' = payload
  /\ dgLastWire' = [repliable |-> FALSE, toPort |-> 0]
  /\ dgEmitted' = DatagramServerOnMessage(dgLastMsg', dgExpectedToPort)
  /\ dgSeen' = TRUE
  /\ UNCHANGED <<dgStyle, dgListenPort, dgExpectedToPort, NotDg>>

DgNext ==
  \/ \E style \in {"DATAGRAM", "RAW"}, p \in Ports \cup {Undefined} :
       DgCreateSubsession(style, p)
  \/ \E d \in {"dA", "dB"}, fp \in Ports, tp \in Ports, pl \in Payloads :
       DgReceiveRepliable(d, fp, tp, pl)
  \/ \E pl \in Payloads : DgReceiveRaw(pl)

(* Claims about the DatagramServer *)

DgBound == dgStyle = "DATAGRAM" /\ dgListenPort \notin {0, Undefined}
DgUnbound == dgStyle = "DATAGRAM" /\ dgListenPort \in {0, Undefined}

\* C4: a DATAGRAM subsession created with listen port p # 0 emits a
\* repliableDatagram event only for a datagram the bridge sent with
\* TO_PORT = p; a datagram with any other TO_PORT emits nothing.
C4_PortFilter ==
  DgBound =>
    /\ \A i \in 1..Len(dgEmitted) :
         /\ dgEmitted[i].type = "repliableDatagram"
         /\ dgLastWire.repliable
         /\ dgLastWire.toPort = dgListenPort
         /\ dgEmitted[i].toPort = dgListenPort
    /\ (dgSeen /\ dgLastWire.toPort # dgListenPort) => dgEmitted = <<>>

\* listen port 13, a datagram with TO_PORT=14 was handled and dropped
C4_Witness ==
  /\ dgStyle = "DATAGRAM" /\ dgListenPort = 13 /\ dgSeen
  /\ dgLastWire.toPort = 14 /\ dgEmitted = <<>>

\* C5 (as claimed): a DATAGRAM subsession created without a listen port
\* surfaces every repliable datagram of the bridge, whatever its TO_PORT.
C5_NoFilterWithoutListenPort ==
  (DgUnbound /\ dgSeen /\ dgLastWire.repliable) =>
    /\ Len(dgEmitted) = 1
    /\ dgEmitted[1].type = "repliableDatagram"
    /\ dgEmitted[1].toPort = dgLastWire.toPort

\* C6 (as claimed): on a RAW subsession every datagram is surfaced as exactly
\* one rawDatagram event carrying the datagram's bytes, whatever they are,
\* and never as a repliableDatagram event.
C6_RawAlwaysRaw ==
  (dgStyle = "RAW" /\ dgSeen) =>
    /\ Len(dgEmitted) = 1
    /\ dgEmitted[1].type = "rawDatagram"
    /\ dgEmitted[1].payload = dgLastMsg


-----------------------------------------------------------------------------
(* parseMessage: the reply-line parser of the SAM client *)

RECURSIVE NonEmpty(_)
NonEmpty(segs) ==
  IF segs = <<>> THEN <<>>
  ELSE IF Head(segs) = <<>> THEN NonEmpty(Tail(segs))
  ELSE <<Head(segs)>> \o NonEmpty(Tail(segs))

\* a split of the argument string on every space, quoted or not
ParseArgStringOnEverySpace(argString) == NonEmpty(Split(argString, SP))

RECURSIVE ParseArgLoop(_, _, _, _)
\* the loop of parseArgString over the characters left in argString
ParseArgLoop(argString, args, currentArg, inQuotes) ==
  IF argString = <<>>
  THEN IF currentArg # <<>> THEN Append(args, currentArg) ELSE args
  ELSE LET char == Head(argString)
           rest == Tail(argString)
       IN IF char = QT
          THEN ParseArgLoop(rest, args, Append(currentArg, char), ~inQuotes)
          ELSE IF char = SP /\ ~inQuotes
          THEN ParseArgLoop(rest,
                 IF currentArg # <<>> THEN Append(args, currentArg) ELSE args,
                 <<>>, inQuotes)
          ELSE ParseArgLoop(rest, args, Append(currentArg, char), inQuotes)

\* parseArgString: the KEY=VALUE words of the argument string; a space
\* separates two words only outside a double-quoted region
ParseArgString(argString) == ParseArgLoop(argString, <<>>, <<>>, FALSE)

\* JSON.parse of a text that starts with a double quote: the text between
\* the quotes when the closing quote is the last character and no other
\* quote stands between (the model's texts hold no backslash), a
\* SyntaxError otherwise
JsonParseThrows(value) ==
  \/ Len(value) < 2
  \/ value[Len(value)] # QT
  \/ \E i \in 2..(Len(value) - 1) : value[i] = QT
JsonParse(value) == SubSeq(value, 2, Len(value) - 1)

\* parseMessage(msg): the type (the text before the second space) and the
\* argument words
ParseMessage(msg) ==
  IF msg # <<>> /\ Head(msg) = "PING"
  THEN [type |-> <<"PING">>, pargs |-> <<>>, remainder |-> Trim(Tail(msg))]
  ELSE LET firstSpaceIndex == IndexOf(msg, SP)
           secondSpaceIndex == IndexOfFrom(msg, SP, firstSpaceIndex + 1)
       IN [type |-> Substring(msg, 0, secondSpaceIndex),
           pargs |-> ParseArgString(SubarrayFrom(msg, secondSpaceIndex + 1)),
           remainder |-> <<>>]

\* argsObj[name]: the words are split at their first "=" only; a word without
\* "=" or without a key is skipped; the last word with the key decides
MsgArg(m, name) ==
  LET hits == {i \in 1..Len(m.pargs) :
                 /\ IndexOf(m.pargs[i], EQ) > 0
                 /\ SubSeq(m.pargs[i], 1, IndexOf(m.pargs[i], EQ)) = <<name>>}
      last == CHOOSE i \in hits : \A j \in hits : j <= i
      value == SubarrayFrom(m.pargs[last], IndexOf(m.pargs[last], EQ) + 1)
  IN IF hits = {} THEN UndefinedStr
     ELSE IF value # <<>> /\ Head(value) = QT THEN JsonParse(value)
     ELSE value

\* parseMessage throws "Error parsing value": a word with a key whose value
\* starts with a double quote and is no JSON string
MsgThrows(m) ==
  \E i \in 1..Len(m.pargs) :
    LET eqIndex == IndexOf(m.pargs[i], EQ)
        value == SubarrayFrom(m.pargs[i], eqIndex + 1)
    IN /\ eqIndex > 0
       /\ value # <<>> /\ Head(value) = QT
       /\ JsonParseThrows(value)

REPLY_HELLO == <<"HELLO", SP, "REPLY">>
REPLY_STREAM == <<"STREAM", SP, "STATUS">>
REPLY_SESSION == <<"SESSION", SP, "STATUS">>
REPLY_NAMING == <<"NAMING", SP, "REPLY">>

-----------------------------------------------------------------------------
(* StreamSession: the accept loop of a STREAM subsession *)

\* the lines of the bridge
HelloReplyLine(result) == REPLY_HELLO \o <<SP, "RESULT", EQ, result, NL>>
StreamStatusLine(result) == REPLY_STREAM \o <<SP, "RESULT", EQ, result, NL>>
\* the accept preamble: "<dest> FROM_PORT=<n> TO_PORT=<m>\n" (SAM 3.2 and
\* later), or the destination alone (before 3.2)
PreambleLine(dest, fromPort, toPort) ==
  <<dest, SP, "FROM_PORT", EQ>> \o ToDigits(fromPort)
    \o <<SP, "TO_PORT", EQ>> \o ToDigits(toPort) \o <<NL>>
BarePreambleLine(dest) == <<dest, NL>>

\* the keepalive of the bridge and the answer BaseSamSocket.parseReply writes
PingLine(remainder) == <<"PING", SP>> \o remainder \o <<NL>>
PongLine(remainder) ==
  <<"PONG">> \o (IF remainder # <<>> THEN <<SP>> \o remainder ELSE <<>>) \o <<NL>>

NoConn == [set |-> FALSE, dest |-> "", toPort |-> NaN]

\* new StreamAcceptSocket({..., fromPort})
NewAcceptSocket(fromPort) ==
  [env |-> "connecting", written |-> <<>>, helloCompleted |-> FALSE,
   fromPort |-> OrZero(fromPort), destination |-> <<>>, isAccepting |-> TRUE,
   expectingDestination |-> FALSE, hasStream |-> FALSE,
   streamListener |-> TRUE, dataListener |-> FALSE, accepted |-> FALSE,
   appErrorListener |-> FALSE, conn |-> NoConn,
   registered |-> TRUE, pings |-> <<>>, pongs |-> <<>>]

\* the TO_PORT test of the accept preamble
AcceptsToPort(fromPort, toPort) == fromPort = 0 \/ StrictEq(toPort, fromPort)

\* StreamAcceptSocket.parseReply(data): the socket afterwards and the event
\* it emits on itself ("" when none)
AcceptParseReply(s, data) ==
  IF s.expectingDestination
  THEN LET message == Trim(data)
           parts == Split(message, SP)
           toPort == ParseInt(ArgsGet(parts, 2, "TO_PORT"))
       IN IF AcceptsToPort(s.fromPort, toPort)
          THEN [s |-> [s EXCEPT !.destination = parts[1],
                                !.expectingDestination = FALSE,
                                !.hasStream = TRUE],
                emit |-> "data"]
          ELSE [s |-> [s EXCEPT !.expectingDestination = FALSE], emit |-> ""]
  ELSE LET msg == ParseMessage(Trim(data))
           ok == MsgArg(msg, "RESULT") = <<"OK">>
       IN IF msg.type = REPLY_HELLO
          THEN [s |-> s, emit |-> IF ok THEN "hello" ELSE "error"]
          ELSE IF msg.type = REPLY_STREAM
          THEN IF ok
               THEN IF s.isAccepting
                    THEN [s |-> [s EXCEPT !.expectingDestination = TRUE], emit |-> "stream"]
                    ELSE [s |-> [s EXCEPT !.hasStream = TRUE], emit |-> "stream"]
               ELSE [s |-> s, emit |-> "error"]
          ELSE IF msg.type = REPLY_SESSION
          THEN [s |-> s, emit |-> IF ok THEN "session" ELSE ""]
          ELSE IF msg.type = REPLY_NAMING
          THEN [s |-> s, emit |-> IF ok THEN "nameLookupResult" ELSE "error"]
          ELSE [s |-> s, emit |-> ""]

\* socket.on("data"): a socket in stream mode forwards the bytes, any other
\* parses them as a reply
SocketOnData(s, data) ==
  IF s.hasStream THEN [s |-> s, emit |-> "data"] ELSE AcceptParseReply(s, data)

\* the destination startAccepting's "data" listener stores on the socket
AcceptedDestination(data) == Trim(data)

\* the listeners of the accept socket run on what SocketOnData emitted:
\* internalEmitter.once("hello") and its then-callback (STREAM ACCEPT),
\* startAccepting's once("stream") and the once("data") it registers
AcceptListeners(s, emit, data) ==
  IF emit = "hello" /\ ~s.helloCompleted
  THEN [s EXCEPT !.helloCompleted = TRUE, !.written = @ \o <<"STREAM ACCEPT">>]
  ELSE IF emit = "stream" /\ s.streamListener
  THEN [s EXCEPT !.streamListener = FALSE, !.dataListener = TRUE]
  ELSE IF emit = "data" /\ s.dataListener
  THEN IF ~s.accepted
       THEN [s EXCEPT !.dataListener = FALSE, !.accepted = TRUE, !.hasStream = TRUE,
                      !.destination = AcceptedDestination(data)]
       ELSE [s EXCEPT !.dataListener = FALSE]
  ELSE s

\* whether that run emitted the session's "stream" event
DeliversStream(s, emit) == emit = "data" /\ s.dataListener /\ ~s.accepted

AcInit ==
  /\ acCreated = FALSE
  /\ acFromPort = 0
  /\ acSockets = <<>>
  /\ acPending = 0
  /\ acEvents = <<>>

\* new StreamSession({..., fromPort}): startAccepting opens the first socket
AcCreateSession(fromPort) ==
  /\ ~acCreated
  /\ acCreated' = TRUE
  /\ acFromPort' = OrZero(fromPort)
  /\ acSockets' = <<NewAcceptSocket(OrZero(fromPort))>>
  /\ UNCHANGED <<acPending, acEvents, NotAc>>

\* a scheduled acceptNext runs, while the session has opened fewer than
\* `most` sockets
AcAcceptNextUpTo(most) ==
  /\ acPending > 0
  /\ Len(acSockets) < most
  /\ acPending' = acPending - 1
  /\ acSockets' = Append(acSockets, NewAcceptSocket(acFromPort))
  /\ UNCHANGED <<acCreated, acFromPort, acEvents, NotAc>>

AcAcceptNext == AcAcceptNextUpTo(MaxAcceptSockets)

\* socket.once("connect"): sendHello
AcConnect(k) ==
  /\ acSockets[k].env = "connecting"
  /\ acSockets' = [acSockets EXCEPT ![k].env = "hello", ![k].written = @ \o <<"HELLO">>]
  /\ UNCHANGED <<acCreated, acFromPort, acPending, acEvents, NotAc>>

\* the data handler of socket k runs on one chunk; env is the socket's place
\* in the bridge's protocol afterwards and conn the accept preamble, once sent
AcOnData(k, data, env, conn) ==
  LET r == SocketOnData(acSockets[k], data)
      s2 == AcceptListeners(r.s, r.emit, data)
      delivered == DeliversStream(r.s, r.emit)
  IN /\ acSockets' = [acSockets EXCEPT ![k] = [s2 EXCEPT !.env = env, !.conn = conn]]
     /\ acEvents' = IF delivered
                    THEN Append(acEvents, [sock |-> k, destination |-> s2.destination])
                    ELSE acEvents
     /\ acPending' = IF delivered THEN acPending + 1 ELSE acPending
     /\ UNCHANGED <<acCreated, acFromPort, NotAc>>

\* the bridge answers HELLO
AcHelloReply(k, result) ==
  /\ acSockets[k].env = "hello"
  /\ AcOnData(k, HelloReplyLine(result), IF result = "OK" THEN "accept" ELSE "closed", NoConn)

\* the bridge answers STREAM ACCEPT
AcStreamStatus(k, result) ==
  /\ acSockets[k].env = "accept"
  /\ AcOnData(k, StreamStatusLine(result), IF result = "OK" THEN "listening" ELSE "closed", NoConn)

\* a peer connects: the bridge sends the accept preamble
AcInbound(k, dest, fromPort, toPort) ==
  /\ acSockets[k].env = "listening"
  /\ AcOnData(k, PreambleLine(dest, fromPort, toPort), "piping",
              [set |-> TRUE, dest |-> dest, toPort |-> toPort])

\* the same from a bridge that speaks SAM 3.0 or 3.1
AcInboundBare(k, dest) ==
  /\ acSockets[k].env = "listening"
  /\ AcOnData(k, BarePreambleLine(dest), "piping",
              [set |-> TRUE, dest |-> dest, toPort |-> 0])

\* the bytes a connected peer writes into its stream: anything
PeerChunks ==
  {<<"x">>, StreamStatusLine("OK")}
    \cup {PreambleLine("dE", 0, p) : p \in Ports}

\* the bridge forwards bytes of the connected peer
AcPeerData(k, data) ==
  /\ acSockets[k].env = "piping"
  /\ AcOnData(k, data, "piping", acSockets[k].conn)

\* the application adds an "error" listener to a stream it was handed
AcAppListensForError(k) ==
  /\ acSockets[k].accepted
  /\ ~acSockets[k].appErrorListener
  /\ acSockets' = [acSockets EXCEPT ![k].appErrorListener = TRUE]
  /\ UNCHANGED <<acCreated, acFromPort, acPending, acEvents, NotAc>>

\* the TCP socket errors: BaseSamSocket's listener re-emits the error on the
\* accept socket, which throws when nobody listens there, and only if it
\* returns does startAccepting's listener schedule the next accept
AcSocketError(k) ==
  /\ acSockets[k].env \notin {"closed"}
  /\ acSockets' = [acSockets EXCEPT ![k].env = "closed"]
  /\ acPending' = IF acSockets[k].appErrorListener THEN acPending + 1 ELSE acPending
  /\ UNCHANGED <<acCreated, acFromPort, acEvents, NotAc>>

\* the PINGs the bridge has sent
RECURSIVE AcPingsUpTo(_)
AcPingsUpTo(k) == IF k = 0 THEN 0 ELSE Len(acSockets[k].pings) + AcPingsUpTo(k - 1)
AcPings == AcPingsUpTo(Len(acSockets))

\* the bridge sends PING on a socket it has not turned into a stream
AcPing(k, remainder) ==
  /\ acSockets[k].env \in {"hello", "accept", "listening"}
  /\ ~acSockets[k].hasStream
  /\ AcPings < MaxPings
  /\ LET r == SocketOnData(acSockets[k], PingLine(remainder))
         s2 == AcceptListeners(r.s, r.emit, PingLine(remainder))
         delivered == DeliversStream(r.s, r.emit)
     IN /\ acSockets' = [acSockets EXCEPT ![k] = [s2 EXCEPT !.pings = Append(@, remainder)]]
        /\ acEvents' = IF delivered
                       THEN Append(acEvents, [sock |-> k, destination |-> s2.destination])
                       ELSE acEvents
        /\ acPending' = IF delivered THEN acPending + 1 ELSE acPending
        /\ UNCHANGED <<acCreated, acFromPort, NotAc>>

\* destroy() on a stream the application was handed: QUIT, out of
\* socketsToCleanUp, socket.destroy()
AcDestroy(k) ==
  /\ acSockets[k].accepted
  /\ acSockets[k].registered
  /\ acSockets' = [acSockets EXCEPT ![k].written = Append(@, "QUIT"), ![k].registered = FALSE,
                                    ![k].env = "closed"]
  /\ UNCHANGED <<acCreated, acFromPort, acPending, acEvents, NotAc>>

\* a cleanup that leaves the sockets in stream mode alone
CleanupLeavingStreams(sockets) ==
  [k \in DOMAIN sockets |->
     IF sockets[k].registered /\ ~sockets[k].hasStream
     THEN [sockets[k] EXCEPT !.written = Append(@, "QUIT")]
     ELSE sockets[k]]

\* cleanup's loop over socketsToCleanUp: socket.write("QUIT\n")
Cleanup(sockets) ==
  [k \in DOMAIN sockets |->
     IF sockets[k].registered THEN [sockets[k] EXCEPT !.written = Append(@, "QUIT")]
     ELSE sockets[k]]

\* SIGQUIT, SIGTERM or "exit": cleanup runs
AcCleanup ==
  /\ acCleanups < MaxCleanups
  /\ acCleanups' = acCleanups + 1
  /\ acSockets' = Cleanup(acSockets)
  /\ scSocket' = Cleanup(<<scSocket>>)[1]
  /\ UNCHANGED <<acCreated, acFromPort, acPending, acEvents, dgVars, ctlVars, i2Vars, stVars,
                 i2xVars, hsVars, csStreams, rtVars, snVars, fnVars>>

AcSocketIds == 1..Len(acSockets)

AcNext ==
  \/ \E p \in Ports \cup {Undefined} : AcCreateSession(p)
  \/ AcAcceptNext
  \/ \E k \in AcSocketIds : AcConnect(k)
  \/ \E k \in AcSocketIds, result \in {"OK", "NOVERSION"} : AcHelloReply(k, result)
  \/ \E k \in AcSocketIds, result \in {"OK", "INVALID_ID"} : AcStreamStatus(k, result)
  \/ \E k \in AcSocketIds, tp \in Ports : AcInbound(k, "dA", 0, tp)
  \/ \E k \in AcSocketIds : AcInboundBare(k, "dA")
  \/ \E k \in AcSocketIds, data \in PeerChunks : AcPeerData(k, data)
  \/ \E k \in AcSocketIds : AcAppListensForError(k)
  \/ \E k \in AcSocketIds : AcSocketError(k)

\* the life of the accept sockets with keepalives, destroy() and shutdown
SamSocketNext ==
  \/ \E p \in {0, 13} : AcCreateSession(p)
  \/ AcAcceptNext
  \/ \E k \in AcSocketIds : AcConnect(k)
  \/ \E k \in AcSocketIds : AcHelloReply(k, "OK")
  \/ \E k \in AcSocketIds : AcStreamStatus(k, "OK")
  \/ \E k \in AcSocketIds : AcInbound(k, "dA", 0, 13)
  \/ \E k \in AcSocketIds, remainder \in {<<"x">>} : AcPing(k, remainder)
  \/ \E k \in AcSocketIds : AcDestroy(k)
  \/ AcCleanup

(* Claims about the accept loop *)

\* accept socket k has had its connection: handed to the application, or
\* its preamble refused by the TO_PORT test
AcDelivered(k) == k <= Len(acSockets) /\ acSockets[k].accepted
AcRefusedByFilter(k) ==
  /\ k <= Len(acSockets)
  /\ acSockets[k].conn.set
  /\ ~acSockets[k].accepted
  /\ ~acSockets[k].expectingDestination

\* C30 (as claimed): a STREAM subsession keeps accepting: once accept socket
\* k has had its connection, delivered or refused by the TO_PORT test, the
\* next accept socket is eventually opened.
C30_KeepsAccepting ==
  \A k \in 1..(MaxAcceptSockets - 1) :
    (AcDelivered(k) \/ AcRefusedByFilter(k)) ~> (Len(acSockets) > k)

\* TCP hands the bridge's bytes over in chunks of its own choosing.  The
\* HELLO REPLY line in two data events: first "HELLO REPLY RESULT=" ...
AcHelloReplyHead(k) ==
  /\ acSockets[k].env = "hello"
  /\ AcOnData(k, REPLY_HELLO \o <<SP, "RESULT", EQ>>, "helloTail", NoConn)

\* ... then "OK\n"
AcHelloReplyTail(k) ==
  /\ acSockets[k].env = "helloTail"
  /\ AcOnData(k, <<"OK", NL>>, "accept", NoConn)

\* STREAM STATUS RESULT=OK and the accept preamble in one data event
AcStatusAndPreamble(k, dest, fromPort, toPort) ==
  /\ acSockets[k].env = "accept"
  /\ AcOnData(k, StreamStatusLine("OK") \o PreambleLine(dest, fromPort, toPort), "piping",
              [set |-> TRUE, dest |-> dest, toPort |-> toPort])

\* the accept sockets of a session without a port filter, with the bridge's
\* lines split and coalesced
AcFramingNext ==
  \/ AcCreateSession(0)
  \/ AcAcceptNext
  \/ \E k \in AcSocketIds : AcConnect(k)
  \/ \E k \in AcSocketIds : AcHelloReply(k, "OK")
  \/ \E k \in AcSocketIds : AcHelloReplyHead(k)
  \/ \E k \in AcSocketIds : AcHelloReplyTail(k)
  \/ \E k \in AcSocketIds : AcStreamStatus(k, "OK")
  \/ \E k \in AcSocketIds : AcStatusAndPreamble(k, "dA", 0, 0)
  \/ \E k \in AcSocketIds : AcInbound(k, "dA", 0, 0)
  \/ \E k \in AcSocketIds : AcAppListensForError(k)
  \/ \E k \in AcSocketIds : AcSocketError(k)

\* C32 (as claimed): every reply line of the bridge is handled as one
\* message however TCP chunks the bytes: a socket whose HELLO the bridge has
\* answered with RESULT=OK has completed its hello, and a connection whose
\* accept preamble the bridge has sent is delivered.
C32_EveryLineHandled ==
  \A k \in AcSocketIds :
    /\ acSockets[k].env \in {"accept", "listening", "piping"} => acSockets[k].helloCompleted
    /\ acSockets[k].env = "piping" => acSockets[k].accepted

\* accepts, deliveries and socket errors of a session without a port filter
AcErrorNext ==
  \/ AcCreateSession(0)
  \/ AcAcceptNextUpTo(MaxAcceptSockets + 1)
  \/ \E k \in AcSocketIds : AcConnect(k)
  \/ \E k \in AcSocketIds : AcHelloReply(k, "OK")
  \/ \E k \in AcSocketIds : AcStreamStatus(k, "OK")
  \/ \E k \in AcSocketIds : AcInbound(k, "dA", 0, 0)
  \/ \E k \in AcSocketIds : AcAppListensForError(k)
  \/ \E k \in AcSocketIds : AcSocketError(k)

\* the accept sockets that are open and have not delivered a connection
AcUndelivered == {k \in AcSocketIds : ~acSockets[k].accepted /\ acSockets[k].env # "closed"}

\* C31 (as claimed): a StreamSession has at most one accept socket that has
\* not yet delivered its connection, also after an error on a socket whose
\* connection was delivered.
C31_OnePendingAccept == Cardinality(AcUndelivered) <= 1

\* C7 (as claimed): the socket of every "stream" event answers
\* getDestination() with the Base64 destination of its accept preamble, the
\* text before the first space.
C7_DestinationIsPreambleDest ==
  \A i \in 1..Len(acEvents) :
    /\ acSockets[acEvents[i].sock].conn.set
    /\ acEvents[i].destination = <<acSockets[acEvents[i].sock].conn.dest>>
    /\ acSockets[acEvents[i].sock].destination = acEvents[i].destination

\* C8 (as claimed): a STREAM subsession with listen port p # 0 emits a
\* "stream" event only for a connection whose accept preamble has TO_PORT = p.
C8_StreamPortFilter ==
  acFromPort # 0 =>
    \A i \in 1..Len(acEvents) :
      /\ acSockets[acEvents[i].sock].conn.set
      /\ acSockets[acEvents[i].sock].conn.toPort = acFromPort

\* C16 (as claimed): every PING the bridge sent on a socket that was not a
\* stream has been answered on that socket with PONG and the same remainder.
C16_PingAnswered ==
  \A k \in AcSocketIds :
    acSockets[k].pongs = [i \in 1..Len(acSockets[k].pings) |-> PongLine(acSockets[k].pings[i])]

-----------------------------------------------------------------------------
(* ControlSocket and PrimarySession: subsessions and name lookups *)

\* the length of a literal Base64 destination no lookup is made for
LiteralDestinationLength == 387

\* the host names and destinations applications look up, by length: a short
\* host name, and strings of 387 and 388 characters
Names == {<<"n5">>, <<"n387">>, <<"n388">>}

\* the destinations the bridge resolves names to: one of 516 characters and
\* one of 514 that comes without its padding
DestValues == {<<"d516">>, <<"d514">>}

\* the number of characters of a word of the model
LexLen(w) ==
  CASE w = "n5" -> 5
    [] w = "n387" -> 387
    [] w = "n388" -> 388
    [] w = "d516" -> 516
    [] w = "d514" -> 514
    [] OTHER -> 1

\* str.length
RECURSIVE StrLen(_)
StrLen(str) == IF str = <<>> THEN 0 ELSE LexLen(Head(str)) + StrLen(Tail(str))

\* "=".repeat(n)
RECURSIVE Repeat(_, _)
Repeat(c, n) == IF n <= 0 THEN <<>> ELSE <<c>> \o Repeat(c, n - 1)

\* addBase64Padding(str)
AddBase64Padding(str) ==
  LET remainder == StrLen(str) % 4
  IN IF remainder = 0 THEN str ELSE str \o Repeat(EQ, 4 - remainder)

\* name.length > 387 at the head of nameLookup and of performNameLookup
IsLiteralDestinationOffByOne(name) == StrLen(name) > LiteralDestinationLength + 1
IsLiteralDestination(name) == StrLen(name) > LiteralDestinationLength

\* the subsessions applications ask for: (applicationName, style)
Apps == {"a"}
Styles == {"STREAM", "RAW"}
SubKeys == Apps \X Styles
NoKey == <<"", "">>

CallIds == 1..MaxCalls

\* a command on the control socket
Command(cmd, key, name) == [cmd |-> cmd, key |-> key, name |-> name]
\* a registered listener and the call whose promise it settles (0: the
\* promise of primarySessionCreated)
Listener(kind, call) == [kind |-> kind, call |-> call]

IdleCall == [op |-> "", key |-> NoKey, name |-> <<>>, pc |-> "idle", obj |-> 0, value |-> <<>>]

\* the lines of the bridge on the control socket
SessionStatusLine(result) == REPLY_SESSION \o <<SP, "RESULT", EQ, result, SP, "ID", EQ, "id", NL>>
NamingReplyLine(result, name, value) ==
  REPLY_NAMING \o <<SP, "RESULT", EQ, result, SP, "NAME", EQ>> \o name
    \o (IF result = "OK" THEN <<SP, "VALUE", EQ>> \o value ELSE <<>>) \o <<NL>>

\* a parseReply that does not look at RESULT
ControlParseReplyAnyResult(data) ==
  LET msg == ParseMessage(Trim(data))
  IN IF msg.type = REPLY_HELLO THEN [emit |-> "hello", arg |-> <<>>]
     ELSE IF msg.type = REPLY_STREAM THEN [emit |-> "stream", arg |-> <<>>]
     ELSE IF msg.type = REPLY_SESSION THEN [emit |-> "session", arg |-> MsgArg(msg, "ID")]
     ELSE IF msg.type = REPLY_NAMING
     THEN [emit |-> "nameLookupResult", arg |-> MsgArg(msg, "VALUE")]
     ELSE [emit |-> "", arg |-> <<>>]

\* BaseSamSocket.parseReply(data): the event it emits ("" when none) and the
\* event's argument
ControlParseReply(data) ==
  LET msg == ParseMessage(Trim(data))
      ok == MsgArg(msg, "RESULT") = <<"OK">>
  IN IF msg.type = REPLY_HELLO
     THEN [emit |-> IF ok THEN "hello" ELSE "error", arg |-> <<>>]
     ELSE IF msg.type = REPLY_STREAM
     THEN [emit |-> IF ok THEN "stream" ELSE "error", arg |-> <<>>]
     ELSE IF msg.type = REPLY_SESSION
     THEN [emit |-> IF ok THEN "session" ELSE "", arg |-> MsgArg(msg, "ID")]
     ELSE IF msg.type = REPLY_NAMING
     THEN [emit |-> IF ok THEN "nameLookupResult" ELSE "error", arg |-> MsgArg(msg, "VALUE")]
     ELSE [emit |-> "", arg |-> <<>>]

\* the state the listeners of the control socket act on
CtlState ==
  [hello |-> ctlHello, primary |-> ctlPrimary, sessionL |-> ctlSessionListeners,
   errorL |-> ctlErrorListeners, lookupL |-> ctlLookupListeners,
   objects |-> ctlObjects, cache |-> ctlCache, calls |-> ctlCalls]

HasListener(L, kind, c) == \E i \in 1..Len(L) : L[i].kind = kind /\ L[i].call = c

\* the number of the object the "session" listener of call c constructs: the
\* listeners run in registration order
NewObject(st, c) ==
  LET i == CHOOSE j \in 1..Len(st.sessionL) :
             st.sessionL[j].kind = "add" /\ st.sessionL[j].call = c
  IN st.objects + Cardinality({j \in 1..i : st.sessionL[j].kind = "add"})

\* emit("session"): every once-listener runs and is removed; the one of
\* primarySessionCreated resolves its promise, the ones of addSession each
\* construct a Subsession and resolve with it
EmitSession(st) ==
  [st EXCEPT
     !.primary = IF HasListener(st.sessionL, "primary", 0) /\ @ = "pending"
                 THEN "resolved" ELSE @,
     !.calls = [c \in CallIds |->
                  IF HasListener(st.sessionL, "add", c) /\ st.calls[c].pc = "awaitAdd"
                  THEN [st.calls[c] EXCEPT !.pc = "resolvedAdd", !.obj = NewObject(st, c)]
                  ELSE st.calls[c]],
     !.objects = @ + Cardinality({j \in 1..Len(st.sessionL) : st.sessionL[j].kind = "add"}),
     !.sessionL = <<>>]

\* emit("error"): with no listener it throws and nothing changes; otherwise
\* every once-listener runs and rejects its promise
EmitError(st) ==
  [st EXCEPT
     !.primary = IF HasListener(st.errorL, "primary", 0) /\ @ = "pending"
                 THEN "rejected" ELSE @,
     !.calls = [c \in CallIds |->
                  IF \/ HasListener(st.errorL, "add", c) /\ st.calls[c].pc = "awaitAdd"
                     \/ HasListener(st.errorL, "lookup", c) /\ st.calls[c].pc = "awaitLookup"
                  THEN [st.calls[c] EXCEPT !.pc = "failed"]
                  ELSE st.calls[c]],
     !.errorL = <<>>]

\* emit("nameLookupResult", result): every once-listener caches the padded
\* result under its own name and resolves with it
EmitNameLookupResult(st, result) ==
  LET padded == AddBase64Padding(result)
  IN [st EXCEPT
        !.cache = [n \in Names |->
                     IF \E c \in CallIds : HasListener(st.lookupL, "lookup", c) /\ st.calls[c].name = n
                     THEN padded ELSE st.cache[n]],
        !.calls = [c \in CallIds |->
                     IF HasListener(st.lookupL, "lookup", c) /\ st.calls[c].pc = "awaitLookup"
                     THEN [st.calls[c] EXCEPT !.pc = "done", !.value = padded]
                     ELSE st.calls[c]],
        !.lookupL = <<>>]

\* socket.on("data") of the control socket
ControlOnData(st, data) ==
  LET r == ControlParseReply(data)
  IN CASE r.emit = "hello" -> [st EXCEPT !.hello = TRUE]
       [] r.emit = "session" -> EmitSession(st)
       [] r.emit = "error" -> EmitError(st)
       [] r.emit = "nameLookupResult" -> EmitNameLookupResult(st, r.arg)
       [] OTHER -> st

\* the control socket's state becomes st
CtlBecomes(st) ==
  /\ ctlHello' = st.hello
  /\ ctlPrimary' = st.primary
  /\ ctlSessionListeners' = st.sessionL
  /\ ctlErrorListeners' = st.errorL
  /\ ctlLookupListeners' = st.lookupL
  /\ ctlObjects' = st.objects
  /\ ctlCache' = st.cache
  /\ ctlCalls' = st.calls

\* a call whose awaited promise has settled: its continuation is a queued
\* microtask, which runs before the next event of the socket
CtlRunnable(c) ==
  \/ ctlCalls[c].pc \in {"awaitHello", "awaitHelloLookup"} /\ ctlHello
  \/ ctlCalls[c].pc = "awaitPrimary" /\ ctlPrimary \in {"resolved", "rejected"}
  \/ ctlCalls[c].pc = "resolvedAdd"
CtlQuiet == \A c \in CallIds : ~CtlRunnable(c)

\* the application makes its calls one after the other
CtlMayCall(c) == ctlCalls[c].pc = "idle" /\ \A d \in 1..(c - 1) : ctlCalls[d].pc # "idle"

CtlRouterVars == <<ctlEnv, ctlWritten, ctlAnswered, ctlRouterIds>>
CtlSocketVars == <<ctlHello, ctlPrimary, ctlSessionListeners, ctlErrorListeners,
                   ctlLookupListeners, ctlObjects, ctlCache>>

CtlInit ==
  /\ ctlEnv = "connecting"
  /\ ctlHello = FALSE
  /\ ctlPrimary = "none"
  /\ ctlSessionListeners = <<>>
  /\ ctlErrorListeners = <<>>
  /\ ctlLookupListeners = <<>>
  /\ ctlWritten = <<>>
  /\ ctlAnswered = 0
  /\ ctlRouterIds = {}
  /\ ctlMap = [k \in SubKeys |-> 0]
  /\ ctlObjects = 0
  /\ ctlCache = [n \in Names |-> <<>>]
  /\ ctlCalls = [c \in CallIds |-> IdleCall]

\* socket.once("connect"): sendHello
CtlConnect ==
  /\ ctlEnv = "connecting"
  /\ ctlEnv' = "open"
  /\ ctlWritten' = Append(ctlWritten, Command("HELLO", NoKey, <<>>))
  /\ UNCHANGED <<ctlAnswered, ctlRouterIds, ctlMap, CtlSocketVars, ctlCalls, NotCtl>>

\* getOrCreateSubsession(applicationName, type) up to its await: the
\* subsession of the map, or addSession, which first awaits helloCompleted
\* inside primarySessionCreated
GetOrCreateSubsession(c, key) ==
  /\ CtlMayCall(c)
  /\ ctlCalls' = [ctlCalls EXCEPT ![c] =
       IF ctlMap[key] # 0
       THEN [IdleCall EXCEPT !.op = "sub", !.key = key, !.pc = "done", !.obj = ctlMap[key]]
       ELSE [IdleCall EXCEPT !.op = "sub", !.key = key, !.pc = "awaitHello"]]
  /\ UNCHANGED <<CtlRouterVars, ctlMap, CtlSocketVars, NotCtl>>

\* a primarySessionCreated that makes a new promise for every caller
PrimarySessionCreatedPerCall(c) ==
  /\ ctlCalls[c].pc = "awaitHello"
  /\ ctlHello
  /\ ctlCalls' = [ctlCalls EXCEPT ![c].pc = "awaitPrimary"]
  /\ ctlPrimary' = IF ctlPrimary = "none" THEN "pending" ELSE ctlPrimary
  /\ ctlSessionListeners' = Append(ctlSessionListeners, Listener("primary", 0))
  /\ ctlErrorListeners' = Append(ctlErrorListeners, Listener("primary", 0))
  /\ ctlWritten' = Append(ctlWritten, Command("CREATE", NoKey, <<>>))
  /\ UNCHANGED <<ctlEnv, ctlAnswered, ctlRouterIds, ctlMap, ctlHello, ctlLookupListeners,
                 ctlObjects, ctlCache, NotCtl>>

\* primarySessionCreated after `await this.helloCompleted`: the promise made
\* earlier, or a new one with SESSION CREATE written
PrimarySessionCreated(c) ==
  /\ ctlCalls[c].pc = "awaitHello"
  /\ ctlHello
  /\ ctlCalls' = [ctlCalls EXCEPT ![c].pc = "awaitPrimary"]
  /\ IF ctlPrimary # "none"
     THEN UNCHANGED <<ctlPrimary, ctlSessionListeners, ctlErrorListeners, ctlWritten>>
     ELSE /\ ctlPrimary' = "pending"
          /\ ctlSessionListeners' = Append(ctlSessionListeners, Listener("primary", 0))
          /\ ctlErrorListeners' = Append(ctlErrorListeners, Listener("primary", 0))
          /\ ctlWritten' = Append(ctlWritten, Command("CREATE", NoKey, <<>>))
  /\ UNCHANGED <<ctlEnv, ctlAnswered, ctlRouterIds, ctlMap, ctlHello, ctlLookupListeners,
                 ctlObjects, ctlCache, NotCtl>>

\* addSession after `await this.primarySessionCreated()`: the listeners and
\* SESSION ADD; a rejected promise rejects the call
AddSession(c) ==
  /\ ctlCalls[c].pc = "awaitPrimary"
  /\ ctlPrimary \in {"resolved", "rejected"}
  /\ IF ctlPrimary = "resolved"
     THEN /\ ctlCalls' = [ctlCalls EXCEPT ![c].pc = "awaitAdd"]
          /\ ctlSessionListeners' = Append(ctlSessionListeners, Listener("add", c))
          /\ ctlErrorListeners' = Append(ctlErrorListeners, Listener("add", c))
          /\ ctlWritten' = Append(ctlWritten, Command("ADD", ctlCalls[c].key, <<>>))
     ELSE /\ ctlCalls' = [ctlCalls EXCEPT ![c].pc = "failed"]
          /\ UNCHANGED <<ctlSessionListeners, ctlErrorListeners, ctlWritten>>
  /\ UNCHANGED <<ctlEnv, ctlAnswered, ctlRouterIds, ctlMap, ctlHello, ctlPrimary,
                 ctlLookupListeners, ctlObjects, ctlCache, NotCtl>>

\* getOrCreateSubsession after `await addSession(...)`: the map takes the
\* new subsession
SubsessionMapSet(c) ==
  /\ ctlCalls[c].pc = "resolvedAdd"
  /\ ctlMap' = [ctlMap EXCEPT ![ctlCalls[c].key] = ctlCalls[c].obj]
  /\ ctlCalls' = [ctlCalls EXCEPT ![c].pc = "done"]
  /\ UNCHANGED <<CtlRouterVars, CtlSocketVars, NotCtl>>

\* nameLookup(name) and performNameLookup up to its await
NameLookup(c, name) ==
  /\ CtlMayCall(c)
  /\ ctlCalls' = [ctlCalls EXCEPT ![c] =
       IF IsLiteralDestination(name)
       THEN [IdleCall EXCEPT !.op = "lookup", !.name = name, !.pc = "done", !.value = name]
       ELSE [IdleCall EXCEPT !.op = "lookup", !.name = name, !.pc = "awaitHelloLookup"]]
  /\ UNCHANGED <<CtlRouterVars, ctlMap, CtlSocketVars, NotCtl>>

\* performNameLookup after `await this.helloCompleted`: the cached result,
\* or the listeners and NAMING LOOKUP
PerformNameLookup(c) ==
  /\ ctlCalls[c].pc = "awaitHelloLookup"
  /\ ctlHello
  /\ IF ctlCache[ctlCalls[c].name] # <<>>
     THEN /\ ctlCalls' = [ctlCalls EXCEPT ![c].pc = "done", ![c].value = ctlCache[ctlCalls[c].name]]
          /\ UNCHANGED <<ctlLookupListeners, ctlErrorListeners, ctlWritten>>
     ELSE /\ ctlCalls' = [ctlCalls EXCEPT ![c].pc = "awaitLookup"]
          /\ ctlLookupListeners' = Append(ctlLookupListeners, Listener("lookup", c))
          /\ ctlErrorListeners' = Append(ctlErrorListeners, Listener("lookup", c))
          /\ ctlWritten' = Append(ctlWritten, Command("LOOKUP", NoKey, ctlCalls[c].name))
  /\ UNCHANGED <<ctlEnv, ctlAnswered, ctlRouterIds, ctlMap, ctlHello, ctlPrimary,
                 ctlSessionListeners, ctlObjects, ctlCache, NotCtl>>

\* the bridge answers the oldest unanswered command with the line `data`
CtlAnswer(cmd, data) ==
  /\ ctlEnv = "open"
  /\ CtlQuiet
  /\ ctlAnswered < Len(ctlWritten)
  /\ ctlWritten[ctlAnswered + 1].cmd = cmd
  /\ ctlAnswered' = ctlAnswered + 1
  /\ CtlBecomes(ControlOnData(CtlState, data))
  /\ UNCHANGED <<ctlEnv, ctlWritten, ctlMap, NotCtl>>

CtlHelloReply(result) ==
  /\ CtlAnswer("HELLO", HelloReplyLine(result))
  /\ UNCHANGED ctlRouterIds

CtlSessionCreateReply(result) ==
  /\ CtlAnswer("CREATE", SessionStatusLine(result))
  /\ UNCHANGED ctlRouterIds

\* SESSION ADD: the bridge refuses an id it already holds
CtlSessionAddReply ==
  /\ ctlAnswered < Len(ctlWritten)
  /\ LET key == ctlWritten[ctlAnswered + 1].key
     IN /\ CtlAnswer("ADD", SessionStatusLine(IF key \in ctlRouterIds THEN "DUPLICATED_ID" ELSE "OK"))
        /\ ctlRouterIds' = ctlRouterIds \cup {key}

CtlNamingReply(result, value) ==
  /\ ctlAnswered < Len(ctlWritten)
  /\ CtlAnswer("LOOKUP", NamingReplyLine(result, ctlWritten[ctlAnswered + 1].name, value))
  /\ UNCHANGED ctlRouterIds

CtlNext ==
  \/ CtlConnect
  \/ \E c \in CallIds, key \in SubKeys : GetOrCreateSubsession(c, key)
  \/ \E c \in CallIds : PrimarySessionCreated(c)
  \/ \E c \in CallIds : AddSession(c)
  \/ \E c \in CallIds : SubsessionMapSet(c)
  \/ \E c \in CallIds, name \in Names : NameLookup(c, name)
  \/ \E c \in CallIds : PerformNameLookup(c)
  \/ \E result \in {"OK", "NOVERSION"} : CtlHelloReply(result)
  \/ \E result \in {"OK", "DUPLICATED_DEST"} : CtlSessionCreateReply(result)
  \/ CtlSessionAddReply
  \/ \E value \in DestValues : CtlNamingReply("OK", value)
  \/ CtlNamingReply("KEY_NOT_FOUND", <<>>)

(* Claims about subsessions and name lookups *)

CtlAddsWritten(key) ==
  Cardinality({i \in 1..Len(ctlWritten) : ctlWritten[i].cmd = "ADD" /\ ctlWritten[i].key = key})

\* C1 (as claimed): all calls of getOrCreateSubsession with the same
\* (applicationName, style) return the same Subsession object, and at most
\* one SESSION ADD is written for that subsession id.
C1_GetOrCreateIdempotent ==
  /\ \A c, d \in CallIds :
       (/\ ctlCalls[c].op = "sub" /\ ctlCalls[c].pc = "done"
        /\ ctlCalls[d].op = "sub" /\ ctlCalls[d].pc = "done"
        /\ ctlCalls[c].key = ctlCalls[d].key)
       => ctlCalls[c].obj = ctlCalls[d].obj
  /\ \A key \in SubKeys : CtlAddsWritten(key) <= 1

\* C9: nameLookup of a name longer than 387 characters returns the name
\* itself, and no NAMING LOOKUP is ever written and no cache entry ever made
\* for such a name, whatever the state of the control socket.
C9_LiteralPassThrough ==
  /\ \A c \in CallIds :
       (ctlCalls[c].op = "lookup" /\ StrLen(ctlCalls[c].name) > 387)
       => /\ ctlCalls[c].pc = "done"
          /\ ctlCalls[c].value = ctlCalls[c].name
          /\ ~HasListener(ctlLookupListeners, "lookup", c)
          /\ ~HasListener(ctlErrorListeners, "lookup", c)
  /\ \A i \in 1..Len(ctlWritten) :
       ctlWritten[i].cmd = "LOOKUP" => StrLen(ctlWritten[i].name) <= 387
  /\ \A n \in Names : StrLen(n) > 387 => ctlCache[n] = <<>>

\* a literal destination was passed through before HELLO completed, and a
\* name of 387 characters was sent to the bridge
C9_Witness ==
  /\ \E c \in CallIds :
       /\ ctlCalls[c].op = "lookup" /\ StrLen(ctlCalls[c].name) = 388
       /\ ctlCalls[c].pc = "done" /\ ~ctlHello
  /\ \E c \in CallIds :
       /\ ctlCalls[c].op = "lookup" /\ StrLen(ctlCalls[c].name) = 387
       /\ ctlCalls[c].pc = "awaitHelloLookup"

\* the commands of one kind the bridge has answered / has yet to answer
\* C27: SESSION CREATE STYLE=PRIMARY is written at most once on the control
\* socket, however many getOrCreateSubsession calls run side by side and
\* whether they were made before or after HELLO completed.
C27_PrimaryCreatedOnce ==
  Cardinality({i \in 1..Len(ctlWritten) : ctlWritten[i].cmd = "CREATE"}) <= 1

\* two calls have gone through primarySessionCreated, one of them while the
\* primary session was still pending
C27_Witness ==
  /\ Cardinality({c \in CallIds : ctlCalls[c].op = "sub" /\ ctlCalls[c].pc = "awaitPrimary"}) >= 2
  /\ ctlPrimary = "pending"
  /\ Cardinality({i \in 1..Len(ctlWritten) : ctlWritten[i].cmd = "CREATE"}) = 1

\* C28 (as claimed): getOrCreateSubsession returns a subsession with ID x
\* only after the bridge has sent SESSION STATUS RESULT=OK for the SESSION ADD
\* of x; the confirmation of one SESSION ADD never resolves the request for
\* another.
C28_ResolvedByOwnConfirmation ==
  \A c \in CallIds :
    (ctlCalls[c].op = "sub" /\ ctlCalls[c].pc \in {"resolvedAdd", "done"})
      => ctlCalls[c].key \in ctlRouterIds

\* C29 (as claimed): the NAMING REPLY that answers the lookup of one name
\* resolves and caches that name only: no other name's cache entry changes
\* and no lookup of another name is settled by it.
C29_LookupResolvedByOwnReply ==
  [][\A value \in DestValues :
       CtlNamingReply("OK", value) =>
         LET name == ctlWritten[ctlAnswered + 1].name
         IN /\ \A n \in Names \ {name} : ctlCache'[n] = ctlCache[n]
            /\ \A c \in CallIds :
                 ctlCalls[c].name # name => ctlCalls'[c] = ctlCalls[c]]_vars

CtlAnsweredOf(cmd) == {i \in 1..ctlAnswered : ctlWritten[i].cmd = cmd}
CtlUnansweredOf(cmd) == {i \in (ctlAnswered + 1)..Len(ctlWritten) : ctlWritten[i].cmd = cmd}

\* C12 (as claimed): once the bridge has answered SESSION CREATE or SESSION
\* ADD, the calls of getOrCreateSubsession waiting for that answer are
\* settled: after a RESULT other than OK they are rejected, none stays
\* pending.
C12_RefusalRejects ==
  /\ CtlAnsweredOf("CREATE") # {} => ctlPrimary # "pending"
  /\ Cardinality({c \in CallIds : ctlCalls[c].pc = "awaitAdd"})
       <= Cardinality(CtlUnansweredOf("ADD"))

-----------------------------------------------------------------------------
(* I2CPSession: session status, datagram sends and host lookups *)

SESSION_STATUS_DESTROYED == 0
SESSION_STATUS_CREATED == 1
SESSION_STATUS_UPDATED == 2
SESSION_STATUS_INVALID == 3
SESSION_STATUS_REFUSED == 4
HOST_REPLY_SUCCESS == 0
HOST_REPLY_FAILURE == 1
LruMax == 1000
LookupIdMax == 65535

\* sessionId before the first SessionStatusMessage
Null == -1
\* the session ids the router hands out; a Buffer is truthy whatever its bytes
SessionIds == {0, 7}
\* !this.sessionId
NoSessionId(sessionId) == sessionId = Null

\* the host strings applications look up, and one that is no .i2p host
Hosts == {<<"a", ".i2p">>, <<"b", ".i2p">>, <<"bad">>}
\* destString.includes(".i2p")
IncludesI2p(destString) == \E i \in 1..Len(destString) : destString[i] = ".i2p"
\* the destinations the router resolves hosts to
Dests == {"DA", "DB"}
NoDest == ""

Range(f) == {f[i] : i \in DOMAIN f}

\* lookupCache: the entries, least recently used first
LruHas(cache, key) == \E i \in 1..Len(cache) : cache[i].key = key
LruIndex(cache, key) == CHOOSE i \in 1..Len(cache) : cache[i].key = key
LruWithout(cache, key) == SelectSeq(cache, LAMBDA e : e.key # key)
\* a cache in which nothing is ever found
LruGetNothing(cache, key) == NoDest
\* lookupCache.get(key): the value (NoDest when absent) ...
LruGet(cache, key) == IF LruHas(cache, key) THEN cache[LruIndex(cache, key)].value ELSE NoDest
\* ... and the cache with the entry made the most recently used
LruTouch(cache, key) ==
  IF LruHas(cache, key)
  THEN Append(LruWithout(cache, key), cache[LruIndex(cache, key)])
  ELSE cache
\* lookupCache.set(key, value): beyond max entries the least recently used goes
LruSet(cache, key, value) ==
  LET c == Append(LruWithout(cache, key), [key |-> key, value |-> value])
  IN IF Len(c) > LruMax THEN Tail(c) ELSE c

\* generateLookupId: the new value of this.lookupId, which is the id
GenerateLookupId(lookupId) == (IF lookupId > LookupIdMax THEN 0 ELSE lookupId) + 1

I2Message(type, sessionId, requestId, host) ==
  [type |-> type, sessionId |-> sessionId, requestId |-> requestId, host |-> host]

I2CallIds == 1..MaxI2Calls

I2IdleCall ==
  [op |-> "", host |-> <<>>, pc |-> "idle", value |-> NoDest, err |-> "",
   inHandler |-> FALSE, cached |-> NoDest, requestId |-> 0]

\* the state the methods of the session act on
I2State ==
  [sessionId |-> i2SessionId, lookupId |-> i2LookupId, handlers |-> i2LookupHandlers,
   cache |-> i2Cache, written |-> i2Written, calls |-> i2Calls, stats |-> i2Stats]

\* the entry the cache holds for key when a call is made (NoDest: none)
LruHolds(cache, key) ==
  IF \E e \in Range(cache) : e.key = key
  THEN (CHOOSE e \in Range(cache) : e.key = key).value
  ELSE NoDest

\* lookup(destString) as call c
Lookup(st, c, destString, inHandler) ==
  LET call == [I2IdleCall EXCEPT !.op = "lookup", !.host = destString, !.inHandler = inHandler,
                                 !.cached = LruHolds(st.cache, destString)]
      cached == LruGet(st.cache, destString)
      lookupId == GenerateLookupId(st.lookupId)
  IN IF ~IncludesI2p(destString)
     THEN [st EXCEPT !.calls[c] = [call EXCEPT !.pc = "rejected",
                                               !.err = "Invalid destination host string"]]
     ELSE IF cached # NoDest
     THEN [st EXCEPT !.cache = LruTouch(@, destString),
                     !.calls[c] = [call EXCEPT !.pc = "resolved", !.value = cached]]
     ELSE IF NoSessionId(st.sessionId)
     \* thrown inside the async executor: the promise of lookup never settles
     THEN [st EXCEPT !.calls[c] = [call EXCEPT !.pc = "hung", !.err = "Session not started yet"]]
     ELSE [st EXCEPT
             !.lookupId = lookupId,
             !.handlers = @ \cup {[requestId |-> lookupId, host |-> destString, call |-> c]},
             !.written = Append(@, I2Message("HostLookup", st.sessionId, lookupId, destString)),
             !.calls[c] = [call EXCEPT !.pc = "pending", !.requestId = lookupId]]

\* sendDatagram / sendRepliableDatagram as call c, up to the await of the
\* message's construction
SendDatagram(st, c, op, inHandler) ==
  LET call == [I2IdleCall EXCEPT !.op = op, !.inHandler = inHandler]
  IN IF NoSessionId(st.sessionId)
     THEN [st EXCEPT !.calls[c] = [call EXCEPT !.pc = "rejected", !.err = "Session ID is not set"]]
     ELSE [st EXCEPT !.stats.messagesSent = @ + 1,
                     !.calls[c] = [call EXCEPT !.pc = "building"]]

SendOps == {"sendDatagram", "sendRepliableDatagram"}

\* what a "session_created" listener of the application does, synchronously
HandlerOps == {"none", "lookup"} \cup SendOps

I2Invoke(st, c, op, host, inHandler) ==
  IF op = "lookup" THEN Lookup(st, c, host, inHandler)
  ELSE IF op \in SendOps THEN SendDatagram(st, c, op, inHandler)
  ELSE st

I2Becomes(st) ==
  /\ i2SessionId' = st.sessionId
  /\ i2LookupId' = st.lookupId
  /\ i2LookupHandlers' = st.handlers
  /\ i2Cache' = st.cache
  /\ i2Written' = st.written
  /\ i2Calls' = st.calls
  /\ i2Stats' = st.stats

I2Init ==
  /\ i2SessionId = Null
  /\ i2LookupId = 0
  /\ i2LookupHandlers = {}
  /\ i2Cache = <<>>
  /\ i2Written = <<I2Message("GetDate", Null, 0, <<>>)>>
  /\ i2Router = [date |-> FALSE, statuses |-> 0, replied |-> {}, reported |-> {}]
  /\ i2Calls = [c \in I2CallIds |-> I2IdleCall]
  /\ i2Stats = [messagesSent |-> 0, messagesAccepted |-> 0, messageLikelySucceeded |-> 0,
                messagesFailed |-> 0]

I2MayCall(c) == i2Calls[c].pc = "idle" /\ \A d \in 1..(c - 1) : i2Calls[d].pc # "idle"

\* handleSetDateMessage: CreateSessionMessage unless a session id is held
HandleSetDateMessage ==
  /\ ~i2Router.date
  /\ i2Router' = [i2Router EXCEPT !.date = TRUE]
  /\ i2Written' = IF NoSessionId(i2SessionId)
                  THEN Append(i2Written, I2Message("CreateSession", Null, 0, <<>>))
                  ELSE i2Written
  /\ UNCHANGED <<i2SessionId, i2LookupId, i2LookupHandlers, i2Cache, i2Calls, i2Stats, NotI2>>

\* handleSessionStatusMessage: "session_created" is emitted for status
\* CREATED, its listener runs (here: making call c with op, or nothing), and
\* after that the session id is stored
HandleSessionStatusMessage(sessionId, status, c, op, host) ==
  /\ i2Router.date
  /\ i2Router.statuses < MaxStatus
  /\ i2Router' = [i2Router EXCEPT !.statuses = @ + 1]
  /\ IF status = SESSION_STATUS_CREATED /\ op # "none"
     THEN /\ I2MayCall(c)
          /\ I2Becomes([I2Invoke(I2State, c, op, host, TRUE) EXCEPT !.sessionId = sessionId])
     ELSE /\ op = "none"
          /\ I2Becomes([I2State EXCEPT !.sessionId = sessionId])
  /\ UNCHANGED NotI2

\* the application calls lookup, sendDatagram or sendRepliableDatagram outside
\* any listener
I2Call(c, op, host) ==
  /\ I2MayCall(c)
  /\ op # "none"
  /\ I2Becomes(I2Invoke(I2State, c, op, host, FALSE))
  /\ UNCHANGED <<i2Router, NotI2>>

\* sendDatagram after `await this.createSendMessageMessage(...)`: write; the
\* message carries a nonce, here the number of the call
I2SendWrite(c) ==
  /\ i2Calls[c].pc = "building"
  /\ i2Written' = Append(i2Written, I2Message("SendMessage", i2SessionId, c, <<>>))
  /\ i2Calls' = [i2Calls EXCEPT ![c].pc = "resolved"]
  /\ UNCHANGED <<i2SessionId, i2LookupId, i2LookupHandlers, i2Cache, i2Router, i2Stats, NotI2>>

\* the 10 s timer of a lookup fires: reject, the handler stays registered
I2LookupTimeout(c) ==
  /\ i2Calls[c].pc = "pending"
  /\ i2Calls' = [i2Calls EXCEPT ![c].pc = "rejected", ![c].err = "timeout"]
  /\ UNCHANGED <<i2SessionId, i2LookupId, i2LookupHandlers, i2Cache, i2Written, i2Router, i2Stats,
                 NotI2>>

\* the HostLookup requests the router has not answered
I2Unanswered ==
  {i2Written[i].requestId : i \in {j \in 1..Len(i2Written) : i2Written[j].type = "HostLookup"}}
    \ i2Router.replied

\* handleHostReplyMessage: the handler of the request id is removed (its
\* timer cleared) and its promise settled; success is cached first
HandleHostReplyMessage(requestId, resultCode, dest) ==
  /\ requestId \in I2Unanswered
  /\ i2Router' = [i2Router EXCEPT !.replied = @ \cup {requestId}]
  /\ LET hs == {h \in i2LookupHandlers : h.requestId = requestId}
     IN IF hs = {}
        THEN UNCHANGED <<i2LookupHandlers, i2Cache, i2Calls>>
        ELSE LET h == CHOOSE x \in hs : TRUE
                 settles == i2Calls[h.call].pc = "pending"
             IN /\ i2LookupHandlers' = i2LookupHandlers \ {h}
                /\ i2Cache' = IF resultCode = HOST_REPLY_SUCCESS
                              THEN LruSet(i2Cache, h.host, dest) ELSE i2Cache
                /\ i2Calls' = IF ~settles THEN i2Calls
                              ELSE IF resultCode = HOST_REPLY_SUCCESS
                              THEN [i2Calls EXCEPT ![h.call].pc = "resolved", ![h.call].value = dest]
                              ELSE [i2Calls EXCEPT ![h.call].pc = "rejected",
                                                   ![h.call].err = "Unexpected lookup status code"]
  /\ UNCHANGED <<i2SessionId, i2LookupId, i2Written, i2Stats, NotI2>>

I2Next ==
  \/ HandleSetDateMessage
  \/ \E sessionId \in SessionIds, status \in {SESSION_STATUS_CREATED, SESSION_STATUS_DESTROYED} :
       HandleSessionStatusMessage(sessionId, status, 1, "none", <<>>)
  \/ \E sessionId \in SessionIds, c \in I2CallIds, host \in Hosts :
       HandleSessionStatusMessage(sessionId, SESSION_STATUS_CREATED, c, "lookup", host)
  \/ \E sessionId \in SessionIds, c \in I2CallIds, op \in SendOps :
       HandleSessionStatusMessage(sessionId, SESSION_STATUS_CREATED, c, op, <<>>)
  \/ \E c \in I2CallIds, host \in Hosts : I2Call(c, "lookup", host)
  \/ \E c \in I2CallIds, op \in SendOps : I2Call(c, op, <<>>)
  \/ \E c \in I2CallIds : I2SendWrite(c)
  \/ \E c \in I2CallIds : I2LookupTimeout(c)
  \/ \E requestId \in I2Unanswered, dest \in Dests :
       HandleHostReplyMessage(requestId, HOST_REPLY_SUCCESS, dest)
  \/ \E requestId \in I2Unanswered : HandleHostReplyMessage(requestId, HOST_REPLY_FAILURE, NoDest)

\* the numbers of lookups a session may have served before the calls looked
\* at: close to the end of the counter's range
EarlierLookups == {LookupIdMax - 2, LookupIdMax - 1, LookupIdMax}

\* n earlier lookups, made with the session created and all answered with a
\* failure HostReply: each call of generateLookupId found lookupId <= 65535
\* and added one, the handlers are gone and nothing was cached
I2EarlierLookups(n) ==
  /\ ~NoSessionId(i2SessionId)
  /\ i2LookupId = 0
  /\ \A c \in I2CallIds : i2Calls[c].pc = "idle"
  /\ i2LookupId' = n
  /\ UNCHANGED <<i2SessionId, i2LookupHandlers, i2Cache, i2Written, i2Router, i2Calls, i2Stats,
                 NotI2>>

I2LookupIdNext ==
  \/ I2Next
  \/ \E n \in EarlierLookups : I2EarlierLookups(n)

(* Claims about the I2CP session *)

\* the request ids of the HostLookup messages written, in order
HostLookupIds ==
  LET lookups == SelectSeq(i2Written, LAMBDA msg : msg.type = "HostLookup")
  IN [i \in 1..Len(lookups) |-> lookups[i].requestId]

\* C37 (as claimed): every request id written into a HostLookup lies in
\* 0..65535, and successive ids increase by one until the counter wraps.
C37_LookupIdsInRange ==
  /\ \A i \in 1..Len(HostLookupIds) : HostLookupIds[i] \in 0..LookupIdMax
  /\ \A i \in 1..(Len(HostLookupIds) - 1) :
       \/ HostLookupIds[i + 1] = HostLookupIds[i] + 1
       \/ HostLookupIds[i] >= LookupIdMax /\ HostLookupIds[i + 1] <= 1

\* C36 (as claimed): every lookup of a valid host settles: resolved from the
\* cache or by a success HostReply, rejected by a failure HostReply, by the
\* 10 s timer or because no session exists yet; no call stays pending for
\* ever, whatever the order of replies and timers.
C36_LookupSettles ==
  \A c \in I2CallIds :
    [](i2Calls[c].op = "lookup" => <>(i2Calls[c].pc \in {"resolved", "rejected"}))

\* C2 (as claimed): a call of sendDatagram, sendRepliableDatagram or lookup
\* made synchronously from a "session_created" listener does not fail with
\* "Session ID is not set" or "Session not started yet".
C2_ReadyAtSessionCreated ==
  \A c \in I2CallIds :
    i2Calls[c].inHandler =>
      i2Calls[c].err \notin {"Session ID is not set", "Session not started yet"}

\* C10: a lookup of a host the cache held at the time of the call is
\* resolved with the cached destination, has registered no lookup handler
\* and has written no HostLookup message.
C10_CachedLookup ==
  \A c \in I2CallIds :
    (i2Calls[c].op = "lookup" /\ i2Calls[c].cached # NoDest) =>
      /\ i2Calls[c].pc = "resolved"
      /\ i2Calls[c].value = i2Calls[c].cached
      /\ i2Calls[c].requestId = 0
      /\ \A h \in i2LookupHandlers : h.call # c
      /\ Cardinality({i \in 1..Len(i2Written) : i2Written[i].type = "HostLookup"})
           = Cardinality({d \in I2CallIds : i2Calls[d].requestId # 0})

\* a second lookup of a host went to the cache: one HostLookup on the wire
C10_Witness ==
  /\ \E c \in I2CallIds : i2Calls[c].op = "lookup" /\ i2Calls[c].cached # NoDest
  /\ Cardinality({i \in 1..Len(i2Written) : i2Written[i].type = "HostLookup"}) = 1

MESSAGE_STATUS_AVAILABLE == 0
MESSAGE_STATUS_ACCEPTED == 1
MESSAGE_STATUS_BEST_EFFORT_SUCCESS == 2
MESSAGE_STATUS_LOCAL_FAILURE == 7
MESSAGE_STATUS_GUARANTEED_SUCCESS == 4
MESSAGE_STATUS_ROUTER_FAILURE == 8
MESSAGE_STATUS_BAD_SESSION == 10
MESSAGE_STATUS_LOOPBACK_DENIED == 23

\* the statuses the router reports in the model
MessageStatuses ==
  {MESSAGE_STATUS_ACCEPTED, MESSAGE_STATUS_GUARANTEED_SUCCESS, MESSAGE_STATUS_ROUTER_FAILURE,
   MESSAGE_STATUS_BAD_SESSION}

\* the switch of handleMessageStatusMessage: the counter a status adds to
\* ("" for the default branch)
MessageStatusCounter(messageStatus) ==
  CASE messageStatus = 1 -> "messagesAccepted"
    [] messageStatus \in {4, 2, 6} -> "messageLikelySucceeded"
    [] messageStatus \in {5, 7, 3, 18, 19, 20, 23, 9, 17, 21, 8, 13} -> "messagesFailed"
    [] OTHER -> ""

\* the nonces of the SendMessage messages written
I2SentNonces ==
  {i2Written[i].requestId : i \in {j \in 1..Len(i2Written) : i2Written[j].type = "SendMessage"}}

\* handleMessageStatusMessage: the status is counted (and logged)
HandleMessageStatusMessage(nonce, messageStatus) ==
  /\ nonce \in I2SentNonces
  /\ \A r \in i2Router.reported : r.nonce # nonce
  /\ i2Router' = [i2Router EXCEPT !.reported = @ \cup {[nonce |-> nonce, status |-> messageStatus]}]
  /\ i2Stats' = IF MessageStatusCounter(messageStatus) = "" THEN i2Stats
                ELSE [i2Stats EXCEPT ![MessageStatusCounter(messageStatus)] = @ + 1]
  /\ UNCHANGED <<i2SessionId, i2LookupId, i2LookupHandlers, i2Cache, i2Written, i2Calls, NotI2>>

I2P_PROTOCOL_REPLIABLE_DATAGRAM == 17
I2P_PROTOCOL_RAW_DATAGRAM == 18

\* the ports applications connect
I2Ports == Ports \ {0}

I2xInit ==
  /\ i2Ports = {}
  /\ i2Inbox = <<>>
  /\ i2Process = [unhandledRejections |-> 0, payloads |-> 0]
  /\ i2Socket = [tcp |-> "connecting", socketConnected |-> FALSE, reconnectTimer |-> 0,
                 armed |-> {}, timers |-> 0, failures |-> 0, emitted |-> {}]

\* connect(port): a new I2CPPort (a port in use throws)
I2Connect(port) ==
  /\ port \notin i2Ports
  /\ i2Ports' = i2Ports \cup {port}
  /\ UNCHANGED <<i2Inbox, i2Process, i2Socket, i2Vars, NotI2x>>

\* an unpacking that neither verifies the signature nor tells raw from
\* repliable
UnpackMessagePayloadMessageUnverified(protocol, sourcePort, destinationPort, from, verified, payload) ==
  [throw |-> FALSE, from |-> from, payload |-> payload]

\* unpackMessagePayloadMessage: the fields of the message, or "throw" for a
\* repliable datagram whose signature does not verify
UnpackMessagePayloadMessage(protocol, sourcePort, destinationPort, from, verified, payload) ==
  IF protocol = I2P_PROTOCOL_REPLIABLE_DATAGRAM
  THEN IF ~verified THEN [throw |-> TRUE, from |-> NoDest, payload |-> payload]
       ELSE [throw |-> FALSE, from |-> from, payload |-> payload]
  ELSE [throw |-> FALSE, from |-> NoDest, payload |-> payload]

\* handleMessagePayloadMessage for a datagram: the event for the listener of
\* the destination port; the handler is async and nobody catches what it
\* throws
HandleMessagePayloadMessage(protocol, sourcePort, destinationPort, from, verified, payload) ==
  LET u == UnpackMessagePayloadMessage(protocol, sourcePort, destinationPort, from, verified,
                                       payload)
  IN /\ i2Process.payloads < MaxPayloads
     /\ i2Process' = [i2Process EXCEPT !.payloads = @ + 1,
                                       !.unhandledRejections = IF u.throw THEN @ + 1 ELSE @]
     /\ i2Inbox' = IF u.throw \/ destinationPort \notin i2Ports THEN i2Inbox
                   ELSE Append(i2Inbox,
                          [event |-> IF u.from # NoDest THEN "repliableMessage"
                                     ELSE "nonRepliableMessage",
                           port |-> destinationPort, from |-> u.from, sourcePort |-> sourcePort,
                           payload |-> u.payload, verified |-> verified])
     /\ UNCHANGED <<i2Ports, i2Socket, i2Vars, NotI2x>>

\* the session's message traffic: sends and the router's status reports
I2MsgNext ==
  \/ HandleSetDateMessage
  \/ \E sessionId \in SessionIds, status \in {SESSION_STATUS_CREATED, SESSION_STATUS_DESTROYED} :
       HandleSessionStatusMessage(sessionId, status, 1, "none", <<>>)
  \/ \E c \in I2CallIds, op \in SendOps : I2Call(c, op, <<>>)
  \/ \E c \in I2CallIds : I2SendWrite(c)
  \/ \E c \in I2CallIds, messageStatus \in MessageStatuses :
       HandleMessageStatusMessage(c, messageStatus)

\* every status of enum MESSAGE_STATUS
AllMessageStatuses == MESSAGE_STATUS_AVAILABLE..MESSAGE_STATUS_LOOPBACK_DENIED

I2StatusNext ==
  \/ HandleSetDateMessage
  \/ \E sessionId \in SessionIds :
       HandleSessionStatusMessage(sessionId, SESSION_STATUS_CREATED, 1, "none", <<>>)
  \/ \E c \in I2CallIds : I2Call(c, "sendDatagram", <<>>)
  \/ \E c \in I2CallIds : I2SendWrite(c)
  \/ \E c \in I2CallIds, messageStatus \in AllMessageStatuses :
       HandleMessageStatusMessage(c, messageStatus)

\* the messages reported with a status from lo to hi
ReportedWithin(lo, hi) == {r \in i2Router.reported : lo <= r.status /\ r.status <= hi}

\* C38 (as claimed): a MessageStatus with status 1 is counted as accepted
\* (queued), one with a status from 2 to 7 as likely delivered, and one with
\* any status from 8 to 23 as a failure of the message.
C38_StatusClasses ==
  /\ i2Stats.messagesAccepted
       = Cardinality(ReportedWithin(MESSAGE_STATUS_ACCEPTED, MESSAGE_STATUS_ACCEPTED))
  /\ i2Stats.messageLikelySucceeded
       = Cardinality(ReportedWithin(MESSAGE_STATUS_BEST_EFFORT_SUCCESS, MESSAGE_STATUS_LOCAL_FAILURE))
  /\ i2Stats.messagesFailed
       = Cardinality(ReportedWithin(MESSAGE_STATUS_ROUTER_FAILURE, MESSAGE_STATUS_LOOPBACK_DENIED))

\* C13 (as claimed): when the router reports a failure status (8..23) for a
\* message, the send call that produced the message is rejected.
C13_FailureRejectsSend ==
  \A r \in i2Router.reported :
    (MESSAGE_STATUS_ROUTER_FAILURE <= r.status /\ r.status <= MESSAGE_STATUS_LOOPBACK_DENIED)
      => i2Calls[r.nonce].pc = "rejected"

\* attemptReconnect: a new 5 s interval, held in reconnectTimer
AttemptReconnect(sock) ==
  [sock EXCEPT !.timers = @ + 1, !.armed = @ \cup {sock.timers + 1},
               !.reconnectTimer = sock.timers + 1]

\* socket "connect": clearInterval(reconnectTimer), socketConnected = true
I2SocketConnect ==
  /\ i2Socket.tcp = "connecting"
  /\ i2Socket' = [i2Socket EXCEPT !.tcp = "open", !.socketConnected = TRUE,
                                  !.armed = @ \ {i2Socket.reconnectTimer}]
  /\ UNCHANGED <<i2Ports, i2Inbox, i2Process, i2Vars, NotI2x>>

\* socket "error": attemptReconnect, nothing else
I2SocketError ==
  /\ i2Socket.tcp \in {"connecting", "open"}
  /\ i2Socket.failures < MaxFailures
  /\ i2Socket' = [AttemptReconnect(i2Socket) EXCEPT !.tcp = "errored", !.failures = @ + 1]
  /\ UNCHANGED <<i2Ports, i2Inbox, i2Process, i2Vars, NotI2x>>

\* socket "close" (after an error, or the router hanging up):
\* socketConnected = false, attemptReconnect
I2SocketClose ==
  /\ i2Socket.tcp \in {"errored", "open"}
  /\ i2Socket.tcp = "open" => i2Socket.failures < MaxFailures
  /\ i2Socket' = [AttemptReconnect(i2Socket) EXCEPT
                    !.tcp = "closed", !.socketConnected = FALSE,
                    !.failures = IF i2Socket.tcp = "open" THEN @ + 1 ELSE @]
  /\ UNCHANGED <<i2Ports, i2Inbox, i2Process, i2Vars, NotI2x>>

\* the interval k fires: clearInterval(reconnectTimer), and unless
\* socketConnected, reconnectTimer = null and socket.connect
I2ReconnectTimer(k) ==
  /\ k \in i2Socket.armed
  /\ i2Socket.tcp # "errored"
  /\ i2Socket' = IF i2Socket.socketConnected
                 THEN [i2Socket EXCEPT !.armed = @ \ {i2Socket.reconnectTimer}]
                 ELSE [i2Socket EXCEPT !.armed = @ \ {i2Socket.reconnectTimer},
                                       !.reconnectTimer = 0, !.tcp = "connecting"]
  /\ UNCHANGED <<i2Ports, i2Inbox, i2Process, i2Vars, NotI2x>>

\* the session's transport and receive side
I2RxNext ==
  \/ i2Socket.tcp = "open" /\ HandleSetDateMessage
  \/ /\ i2Socket.tcp = "open"
     /\ NoSessionId(i2SessionId)
     /\ HandleSessionStatusMessage(7, SESSION_STATUS_CREATED, 1, "none", <<>>)
  \/ \E c \in I2CallIds : I2Call(c, "sendDatagram", <<>>)
  \/ \E c \in I2CallIds : I2SendWrite(c)
  \/ \E port \in I2Ports : I2Connect(port)
  \/ \E protocol \in {I2P_PROTOCOL_REPLIABLE_DATAGRAM, I2P_PROTOCOL_RAW_DATAGRAM},
        destinationPort \in I2Ports, verified \in BOOLEAN :
       i2Socket.tcp = "open" /\
       HandleMessagePayloadMessage(protocol, 13, destinationPort, "DA", verified, "p")
  \/ I2SocketConnect
  \/ I2SocketError
  \/ I2SocketClose
  \/ \E k \in 1..(2 * MaxFailures) : I2ReconnectTimer(k)

\* C14 (as claimed): a repliable datagram whose signature does not verify is
\* dropped silently: it produces no event, and no rejection leaves the
\* message handler.
C14_ForgeryDroppedSilently ==
  /\ \A i \in 1..Len(i2Inbox) : i2Inbox[i].from # NoDest => i2Inbox[i].verified
  /\ i2Process.unhandledRejections = 0

\* C15 (as claimed): once the TCP connection of the session has failed or
\* closed, the session has emitted an error event or rejected a call because
\* of it.
C15_TransportFailureSurfaces ==
  i2Socket.failures > 0 =>
    \/ "error" \in i2Socket.emitted
    \/ \E c \in I2CallIds :
         i2Calls[c].pc = "rejected" /\ i2Calls[c].err # "Session ID is not set"

\* what a datagram of the given protocol for destinationPort must leave in
\* the inbox of the port objects
DatagramDelivery(protocol, destinationPort, verified) ==
  IF destinationPort \in i2Ports
  THEN /\ Len(i2Inbox') = Len(i2Inbox) + 1
       /\ SubSeq(i2Inbox', 1, Len(i2Inbox)) = i2Inbox
       /\ LET e == i2Inbox'[Len(i2Inbox')]
          IN /\ e.port = destinationPort
             /\ e.payload = "p"
             /\ e.sourcePort = 13
             /\ IF protocol = I2P_PROTOCOL_REPLIABLE_DATAGRAM
                THEN e.event = "repliableMessage" /\ e.from = "DA" /\ e.verified
                ELSE e.event = "nonRepliableMessage" /\ e.from = NoDest
  ELSE i2Inbox' = i2Inbox

\* C25: a datagram for destination port p (a repliable one whose signature
\* verifies, or a raw one) is emitted once, on the I2CPPort that connect(p)
\* returned: a repliable one as "repliableMessage" with the verified sender,
\* a raw one as "nonRepliableMessage" without a sender; with no port
\* connected for p nothing is emitted on any port.
C25_DeliveredToConnectedPort ==
  [][\A protocol \in {I2P_PROTOCOL_REPLIABLE_DATAGRAM, I2P_PROTOCOL_RAW_DATAGRAM},
       destinationPort \in I2Ports, verified \in BOOLEAN :
       (/\ protocol = I2P_PROTOCOL_REPLIABLE_DATAGRAM => verified
        /\ HandleMessagePayloadMessage(protocol, 13, destinationPort, "DA", verified, "p"))
         => DatagramDelivery(protocol, destinationPort, verified)]_vars

\* a repliable and a raw datagram were delivered to connected ports
C25_Witness ==
  /\ Len(i2Inbox) = 2
  /\ i2Inbox[1].event = "repliableMessage"
  /\ i2Inbox[2].event = "nonRepliableMessage"
  /\ i2Inbox[1].port # i2Inbox[2].port

\* C11 (as claimed): a lookup rejected with "timeout" has no entry left in
\* lookupHandlers, so a HostReply arriving later finds no handler.
C11_TimeoutRemovesHandler ==
  \A c \in I2CallIds :
    i2Calls[c].err = "timeout" =>
      \A h \in i2LookupHandlers : h.call # c

-----------------------------------------------------------------------------
(* Streaming: routing of incoming packets and receive-side reassembly *)

\* the remote's stream id, carried as receiveStreamId by all its packets
RemoteStreamId == 9
\* the id of the k-th socket of the session: random and not zero
LocalStreamId(k) == 10 + k
\* ackThrough of a stream that has received nothing
InitialAckThrough == -1

Packet(sendStreamId, receiveStreamId, sequenceNum, sync) ==
  [sendStreamId |-> sendStreamId, receiveStreamId |-> receiveStreamId,
   sequenceNum |-> sequenceNum, sync |-> sync]

\* the packets of the remote: its SYNC (sequence 0), its data packets, sent
\* before (sendStreamId 0) or after it learned one of our stream ids, and
\* its pure acks
RemotePackets ==
  {Packet(0, RemoteStreamId, 0, TRUE)}
    \cup {Packet(id, RemoteStreamId, n, FALSE) :
            id \in {0} \cup {LocalStreamId(k) : k \in 1..MaxStreams}, n \in 0..MaxSeq}

\* new I2CPSocket(...)
NewStream ==
  [ackThrough |-> InitialAckThrough, missingPackets |-> {}, receivedPackets |-> {},
   delivered |-> <<>>, drained |-> {}, lastAck |-> [ackThrough |-> InitialAckThrough, nacks |-> {}]]

\* this.streams[packet.receiveStreamId] || this.streams[packet.sendStreamId]:
\* the index of the socket, 0 when there is none
StreamFor(streams, packet) ==
  LET has(id) == \E k \in 1..Len(streams) : LocalStreamId(k) = id
      at(id) == CHOOSE k \in 1..Len(streams) : LocalStreamId(k) = id
  IN IF has(packet.receiveStreamId) THEN at(packet.receiveStreamId)
     ELSE IF has(packet.sendStreamId) THEN at(packet.sendStreamId)
     ELSE 0

\* a packet with sequenceNum # 0 or sync is ackable
IsAckable(packet) == packet.sequenceNum # 0 \/ packet.sync

\* the buffered successors of ack are delivered, in order
RECURSIVE Drain(_)
Drain(s) ==
  IF (s.ackThrough + 1) \in s.receivedPackets
  THEN Drain([s EXCEPT !.ackThrough = @ + 1,
                       !.receivedPackets = @ \ {s.ackThrough + 1},
                       !.delivered = Append(@, s.ackThrough + 1),
                       !.drained = @ \cup {s.ackThrough + 1}])
  ELSE s

Max(a, b) == IF a >= b THEN a ELSE b

\* a receiver that hands every new packet to the application as it arrives
HandlePacketUnordered(s, packet) ==
  IF IsAckable(packet) /\ packet.sequenceNum > s.ackThrough
  THEN [s EXCEPT !.ackThrough = packet.sequenceNum, !.delivered = Append(@, packet.sequenceNum)]
  ELSE s

\* stream.handlePacket(packet), receive side: sequence ackThrough + 1 is
\* delivered and the buffer drained; a later sequence is buffered and the
\* sequences before it noted as missing; an earlier one is a duplicate
HandlePacket(s, packet) ==
  LET n == packet.sequenceNum
      old == s.ackThrough
      t == IF n = old + 1
           THEN Drain([s EXCEPT !.ackThrough = n, !.delivered = Append(@, n),
                                !.missingPackets = @ \ {n}])
           ELSE IF n > old + 1
           THEN [s EXCEPT !.receivedPackets = @ \cup {n},
                          !.missingPackets =
                             (@ \cup {m \in (old + 1)..(n - 1) : m \notin s.receivedPackets}) \ {n}]
           ELSE [s EXCEPT !.missingPackets = @ \ {n}]
  IN IF ~IsAckable(packet) THEN s
     ELSE [t EXCEPT !.lastAck = [ackThrough |-> Max(t.ackThrough, n),
                                 nacks |-> {m \in t.missingPackets : old < m /\ m < n}]]

StInit ==
  /\ stStreams = <<>>
  /\ stArrivals = 0

\* handleMessagePayloadMessage, protocol STREAMING, for a packet that finds
\* its socket
StHandlePacket(packet) ==
  /\ stArrivals < MaxArrivals
  /\ StreamFor(stStreams, packet) # 0
  /\ stArrivals' = stArrivals + 1
  /\ stStreams' = [stStreams EXCEPT ![StreamFor(stStreams, packet)] = HandlePacket(@, packet)]
  /\ UNCHANGED NotSt

\* ... for a SYNC with sendStreamId 0 that finds none: a new socket, which
\* handles the packet
StAccept(packet) ==
  /\ stArrivals < MaxArrivals
  /\ Len(stStreams) < MaxStreams
  /\ StreamFor(stStreams, packet) = 0
  /\ packet.sync /\ packet.sendStreamId = 0
  /\ stArrivals' = stArrivals + 1
  /\ stStreams' = Append(stStreams, HandlePacket(NewStream, packet))
  /\ UNCHANGED NotSt

\* ... for any other packet that finds none: dropped
StDrop(packet) ==
  /\ stArrivals < MaxArrivals
  /\ StreamFor(stStreams, packet) = 0
  /\ ~(packet.sync /\ packet.sendStreamId = 0)
  /\ stArrivals' = stArrivals + 1
  /\ UNCHANGED <<stStreams, NotSt>>

StNext ==
  \/ \E packet \in RemotePackets : StHandlePacket(packet)
  \/ \E packet \in RemotePackets : StAccept(packet)
  \/ \E packet \in RemotePackets : StDrop(packet)

(* Claims about streams *)

\* C39 (as claimed): a responder stream is created (and "stream" emitted)
\* only when no open stream is bound to the receiveStreamId of the incoming
\* SYNC; a retransmitted SYNC is routed to the stream its first copy created.
\* Every packet here comes from one remote stream (receiveStreamId is
\* RemoteStreamId) and no stream is closed, so one responder stream at most.
C39_OneStreamPerSync == Len(stStreams) <= 1

\* C3: whatever the arrival order of the remote's ackable packets, a stream
\* has delivered the sequences 0, 1, 2, ... in this order, each once: a
\* sequence is delivered only after all sequences below it.
C3_InOrderExactlyOnce ==
  \A k \in 1..Len(stStreams) :
    /\ Len(stStreams[k].delivered) = stStreams[k].ackThrough + 1
    /\ \A i \in 1..Len(stStreams[k].delivered) : stStreams[k].delivered[i] = i - 1

\* packets arrived out of order and twice, and the buffered ones were
\* delivered behind the missing one
C3_Witness ==
  \E k \in 1..Len(stStreams) :
    /\ stStreams[k].delivered = <<0, 1, 2, 3>>
    /\ stStreams[k].drained = {2, 3}
    /\ stArrivals >= 5

-----------------------------------------------------------------------------
(* Streaming: the send side of a stream, retirement and retransmission *)

\* the seconds between two transmissions of a packet, and the seconds after
\* which an unacknowledged packet ends its stream
RESEND_DELAY == 3
RESEND_CEILING == 300

\* the seconds of one step of the clock
StepSeconds == RESEND_CEILING \div CeilingSteps

\* two streams of one session
SnStreamIds == {1, 2}
SendSeqs == 0..MaxSendSeq

NewSendStream ==
  [state |-> "open", error |-> "", nextSeq |-> 0, sentPackets |-> {},
   callbacks |-> [k \in SendSeqs |-> 0]]

\* the seconds since the packet was sent, and its retransmissions so far
Age(p) == p.age * StepSeconds
Resends(p) == Age(p) \div RESEND_DELAY
Overdue(stream) == {p \in stream.sentPackets : Age(p) >= RESEND_CEILING}

\* retirement that takes every packet up to ackThrough
RetiredThrough(sentPackets, ackThrough, nacks) ==
  {p \in sentPackets : p.seq <= ackThrough}

\* send-side retirement: the packets k <= ackThrough that are not in nacks
Retired(sentPackets, ackThrough, nacks) ==
  {p \in sentPackets : p.seq <= ackThrough /\ p.seq \notin nacks}

\* a give-up that tears down every stream of the session
GiveUpAll(streams, s) ==
  [t \in DOMAIN streams |->
     [streams[t] EXCEPT !.state = "destroyed", !.error = "Packet resend failed"]]

\* the ceiling is reached for a packet of stream s: that stream is destroyed
GiveUp(streams, s) ==
  [streams EXCEPT ![s].state = "destroyed", ![s].error = "Packet resend failed"]

SnInit ==
  /\ snStreams = [s \in SnStreamIds |-> NewSendStream]
  /\ snLastAck = [stream |-> 0, ackThrough |-> 0, nacks |-> {}, repeated |-> FALSE]

\* the application writes: a packet with the next sequence number is sent
\* and kept in sentPackets with its timer
SnWrite(s) ==
  /\ snStreams[s].state = "open"
  /\ snStreams[s].nextSeq <= MaxSendSeq
  /\ snStreams' = [snStreams EXCEPT
                     ![s].nextSeq = @ + 1,
                     ![s].sentPackets = @ \cup {[seq |-> snStreams[s].nextSeq, age |-> 0]}]
  /\ UNCHANGED <<snLastAck, NotSn>>

\* a packet of the remote comes in on stream s with ackThrough and nacks:
\* the packets it acknowledges are retired and their completion callbacks fire
SnHandleAck(s, ackThrough, nacks) ==
  /\ snStreams[s].state = "open"
  /\ ackThrough < snStreams[s].nextSeq
  /\ LET retired == Retired(snStreams[s].sentPackets, ackThrough, nacks)
     IN snStreams' = [snStreams EXCEPT
                        ![s].sentPackets = @ \ retired,
                        ![s].callbacks = [k \in SendSeqs |->
                                            IF k \in {p.seq : p \in retired} THEN @[k] + 1
                                            ELSE @[k]]]
  /\ snLastAck' = [stream |-> s, ackThrough |-> ackThrough, nacks |-> nacks,
                   repeated |-> /\ snLastAck.stream = s
                                /\ snLastAck.ackThrough = ackThrough
                                /\ snLastAck.nacks = nacks]
  /\ UNCHANGED NotSn

\* time passes while packets are outstanding: the timers of the open streams
\* retransmit them; a destroyed stream has no timers
SnTick ==
  /\ \E s \in SnStreamIds : snStreams[s].state = "open" /\ snStreams[s].sentPackets # {}
  /\ \A s \in SnStreamIds : snStreams[s].state = "open" => Overdue(snStreams[s]) = {}
  /\ snStreams' = [s \in SnStreamIds |->
                     IF snStreams[s].state = "open"
                     THEN [snStreams[s] EXCEPT
                             !.sentPackets = {[p EXCEPT !.age = @ + 1] : p \in @}]
                     ELSE snStreams[s]]
  /\ UNCHANGED <<snLastAck, NotSn>>

\* a packet of stream s has been unacknowledged for the ceiling
SnGiveUp(s) ==
  /\ snStreams[s].state = "open"
  /\ Overdue(snStreams[s]) # {}
  /\ snStreams' = GiveUp(snStreams, s)
  /\ UNCHANGED <<snLastAck, NotSn>>

SnNext ==
  \/ \E s \in SnStreamIds : SnWrite(s)
  \/ \E s \in SnStreamIds, ackThrough \in SendSeqs,
        nacks \in {{}, {1}} : SnHandleAck(s, ackThrough, nacks)
  \/ SnTick
  \/ \E s \in SnStreamIds : SnGiveUp(s)

(* Claims about the send side *)

\* C18: a packet that comes in with ackThrough a and nack list N removes from
\* sentPackets exactly the packets k <= a that are not in N and keeps the
\* others, and over the life of the stream the completion callback of a packet
\* fires once when it is retired and never again, also when the same
\* acknowledgement comes in again.
C18_RetiresExactlyAcked ==
  [][(\/ snLastAck' # snLastAck
       \/ \E s \in SnStreamIds : snStreams'[s].callbacks # snStreams[s].callbacks) =>
       LET s == snLastAck'.stream
           a == snLastAck'.ackThrough
           N == snLastAck'.nacks
           gone == {p \in snStreams[s].sentPackets : p.seq <= a /\ p.seq \notin N}
       IN /\ snStreams'[s].sentPackets = snStreams[s].sentPackets \ gone
          /\ \A k \in SendSeqs :
               /\ snStreams'[s].callbacks[k] =
                    snStreams[s].callbacks[k] + (IF k \in {p.seq : p \in gone} THEN 1 ELSE 0)
               /\ snStreams'[s].callbacks[k] <= 1
               /\ snStreams'[s].callbacks[k] = 1 <=>
                    /\ k < snStreams'[s].nextSeq
                    /\ k \notin {p.seq : p \in snStreams'[s].sentPackets}
          /\ \A t \in SnStreamIds \ {s} : snStreams'[t] = snStreams[t]]_vars

\* the acknowledgement "through MaxSendSeq, nack 1" came in twice: only
\* packet 1 is left and the callbacks of the others have fired once
C18_Witness ==
  /\ snLastAck.repeated
  /\ snLastAck.ackThrough = MaxSendSeq /\ snLastAck.nacks = {1}
  /\ {p.seq : p \in snStreams[snLastAck.stream].sentPackets} = {1}
  /\ \A k \in SendSeqs \ {1} : snStreams[snLastAck.stream].callbacks[k] = 1

-----------------------------------------------------------------------------
(* Stream packets: verify with the replay guard *)

\* a SYNC carries the hash of the recipient in this many nacks
REPLAY_NACKS == 8

PacketDests == {"dA", "dB"}

\* the i-th 32-bit word of SHA-256(destination bytes): different
\* destinations have different hashes
Sha256Word(dest, i) == (IF dest = "dA" THEN 100 ELSE 200) + i
Sha256Words(dest) == [i \in 1..REPLAY_NACKS |-> Sha256Word(dest, i)]

\* the nack lists of incoming packets: none, the hash of a destination in 8
\* words, that hash cut to 7 words, and that hash with its last word altered
PacketNacks ==
  {<<>>}
    \cup {Sha256Words(d) : d \in PacketDests}
    \cup {SubSeq(Sha256Words(d), 1, REPLAY_NACKS - 1) : d \in PacketDests}
    \cup {[Sha256Words(d) EXCEPT ![REPLAY_NACKS] = 0] : d \in PacketDests}

\* the packets: flags, nacks, and whose key made the signature over the
\* zero-filled buffer ("" when the signature is not one of a known key)
Packets ==
  [sync : BOOLEAN, close : BOOLEAN, nacks : PacketNacks, signedBy : PacketDests \cup {""}]

RequiresSignature(packet) == packet.sync \/ packet.close

\* verify without the proof of intent
VerifySignatureOnly(packet, remoteDestination, myDestination) ==
  IF ~RequiresSignature(packet) THEN TRUE
  ELSE packet.signedBy = remoteDestination

\* verify(packet, remote_destination, my_destination)
Verify(packet, remoteDestination, myDestination) ==
  IF ~RequiresSignature(packet) THEN TRUE
  ELSE IF packet.signedBy # remoteDestination THEN FALSE
  ELSE IF packet.sync /\ Len(packet.nacks) = REPLAY_NACKS
  THEN packet.nacks = Sha256Words(myDestination)
  ELSE TRUE

NoPacket == [sync |-> FALSE, close |-> FALSE, nacks |-> <<>>, signedBy |-> ""]

PvInit ==
  pvChecked = [packet |-> NoPacket, remote |-> "", my |-> "", accepted |-> FALSE]

\* a packet arrives and is verified
PvVerify(packet, remoteDestination, myDestination) ==
  /\ pvChecked' = [packet |-> packet, remote |-> remoteDestination, my |-> myDestination,
                   accepted |-> Verify(packet, remoteDestination, myDestination)]
  /\ UNCHANGED <<dsParsed, sgChecked, pmParsed, NotFn>>

PvNext ==
  \E packet \in Packets, remoteDestination \in PacketDests, myDestination \in PacketDests :
    PvVerify(packet, remoteDestination, myDestination)

\* C21: a SYNC with exactly 8 nacks is accepted only if its nacks are the
\* first 32 bytes of SHA-256 of the verifying side's own destination.
C21_ReplayGuard ==
  (/\ pvChecked.packet.sync
   /\ Len(pvChecked.packet.nacks) = REPLAY_NACKS
   /\ pvChecked.accepted)
    => pvChecked.packet.nacks = Sha256Words(pvChecked.my)

\* a correctly signed SYNC that carries the hash of another destination was
\* verified and refused
C21_Witness ==
  /\ pvChecked.packet.sync
  /\ pvChecked.packet.signedBy = pvChecked.remote
  /\ pvChecked.my = "dA"
  /\ pvChecked.packet.nacks = Sha256Words("dB")
  /\ ~pvChecked.accepted

-----------------------------------------------------------------------------
(* Destination: generateLocalDestination and the Destination constructor *)

DESTINATION_CERT_TYPE_NULL == 0
DESTINATION_CERT_TYPE_KEY == 5

DSA_SHA1 == 0
ECDSA_SHA256_P256 == 1
ECDSA_SHA384_P384 == 2
ECDSA_SHA512_P521 == 3
EdDSA_SHA512_Ed25519 == 7
RedDSA_SHA512_Ed25519 == 11

\* DESTINATION_SIGNING_KEYS
SigningTypes ==
  {DSA_SHA1, ECDSA_SHA256_P256, ECDSA_SHA384_P384, ECDSA_SHA512_P521, EdDSA_SHA512_Ed25519,
   RedDSA_SHA512_Ed25519}

SIGNING_PUBLIC_KEY_LENGTHS ==
  [t \in 0..11 |->
     CASE t = 0 -> 128 [] t = 1 -> 64 [] t = 2 -> 96 [] t = 3 -> 132 [] t = 4 -> 256
       [] t = 5 -> 384 [] t = 6 -> 512 [] t = 7 -> 32 [] t = 8 -> 32 [] t = 11 -> 32
       [] OTHER -> NaN]

SIGNATURE_LENGTHS ==
  [t \in 0..11 |->
     CASE t = 0 -> 40 [] t = 1 -> 64 [] t = 2 -> 96 [] t = 3 -> 132 [] t = 4 -> 256
       [] t = 5 -> 384 [] t = 6 -> 512 [] t = 7 -> 64 [] t = 8 -> 64 [] t = 11 -> 64
       [] OTHER -> NaN]

CRYPTO_PUBLIC_KEY_TYPE_ElGamal == 0
CRYPTO_PUBLIC_KEY_LENGTHS ==
  [t \in 0..4 |-> CASE t = 0 -> 256 [] t = 1 -> 64 [] t = 2 -> 96 [] t = 3 -> 132 [] t = 4 -> 32]

PARTIAL_CRYPTO_MAX == 256
PARTIAL_SIGNIN_MAX == 128
PUB_PADD_SIGN_LEN == PARTIAL_CRYPTO_MAX + PARTIAL_SIGNIN_MAX
CERT_TYPE_LOC == 384
SIGN_TYPE_LOC == 387
CRYPT_TYPE_LOC == 389
SIGN_REMAI_LOC == 391
MinDestinationLength == 387

Min(a, b) == IF a <= b THEN a ELSE b

\* buf.subarray(start, end): negative indices count from the end, both are
\* clamped to the buffer, an end before the start gives an empty buffer
BufIndex(buf, i) == IF i < 0 THEN Max(Len(buf) + i, 0) ELSE Min(i, Len(buf))
BufSubarray(buf, start, end) ==
  IF BufIndex(buf, end) <= BufIndex(buf, start) THEN <<>>
  ELSE SubSeq(buf, BufIndex(buf, start) + 1, BufIndex(buf, end))
Alloc(n) == [i \in 1..n |-> 0]
Fill(n, byte) == [i \in 1..n |-> byte]
\* n bytes of key material, different for different seeds
KeyMaterial(n, seed) == [i \in 1..n |-> (seed + i) % 256]
UInt16BE(n) == <<n \div 256, n % 256>>
ReadUInt8(buf, offset) == buf[offset + 1]
ReadUInt16BE(buf, offset) == buf[offset + 1] * 256 + buf[offset + 2]

\* generateLocalDestination(signingType), up to new LocalDestination: the
\* bytes of the destination for a signing public key of publicKeyLength bytes
\* and 256 random bytes of crypto public key ("throw" when the key pair has
\* the wrong length)
GenerateDestinationBuffer(signingType, publicKeyLength, keyByte, cryptoByte) ==
  LET publicSigningKey == KeyMaterial(publicKeyLength, keyByte)
      cryptoPublicKey == KeyMaterial(256, cryptoByte)
      cryptoPartialLength == Min(PARTIAL_CRYPTO_MAX, Len(cryptoPublicKey))
      signingPartialLength == Min(PARTIAL_SIGNIN_MAX, Len(publicSigningKey))
      cryptoRemainder == BufSubarray(cryptoPublicKey, PARTIAL_CRYPTO_MAX, Len(cryptoPublicKey))
      signingRemainder == BufSubarray(publicSigningKey, PARTIAL_SIGNIN_MAX,
                                      Len(publicSigningKey))
      padding == CERT_TYPE_LOC - cryptoPartialLength - signingPartialLength
      certType == IF signingType = DSA_SHA1 THEN DESTINATION_CERT_TYPE_NULL
                  ELSE DESTINATION_CERT_TYPE_KEY
      isKey == certType = DESTINATION_CERT_TYPE_KEY
  IN IF publicKeyLength # SIGNING_PUBLIC_KEY_LENGTHS[signingType]
     THEN [throw |-> TRUE, buffer |-> <<>>]
     ELSE [throw |-> FALSE,
           buffer |->
             BufSubarray(cryptoPublicKey, 0, PARTIAL_CRYPTO_MAX)
               \o Alloc(padding)
               \o BufSubarray(publicSigningKey, 0, PARTIAL_SIGNIN_MAX)
               \o <<certType>>
               \o (IF isKey THEN UInt16BE(Len(cryptoRemainder) + Len(signingRemainder) + 4)
                   ELSE UInt16BE(0))
               \o (IF isKey THEN UInt16BE(signingType) \o UInt16BE(CRYPTO_PUBLIC_KEY_TYPE_ElGamal)
                   ELSE <<>>)
               \o signingRemainder
               \o cryptoRemainder]

\* a constructor that counts no certificate payload
DestinationWithoutKeyCert(dest) ==
  [throw |-> Len(dest) < MinDestinationLength, byteLength |-> MinDestinationLength,
   certType |-> DESTINATION_CERT_TYPE_NULL, signingPublicKeyType |-> DSA_SHA1,
   publicSigningKey |-> <<>>, bytes |-> BufSubarray(dest, 0, MinDestinationLength)]

\* new Destination(dest)
Destination(dest) ==
  IF Len(dest) < MinDestinationLength
  THEN [throw |-> TRUE, byteLength |-> 0, certType |-> 0, signingPublicKeyType |-> 0,
        publicSigningKey |-> <<>>, bytes |-> <<>>]
  ELSE
    LET certType == ReadUInt8(dest, CERT_TYPE_LOC)
        signingPublicKeyType == IF certType = DESTINATION_CERT_TYPE_KEY
                                THEN ReadUInt16BE(dest, SIGN_TYPE_LOC) ELSE 0
        cryptoPublicKeyType == IF certType = DESTINATION_CERT_TYPE_KEY
                               THEN ReadUInt16BE(dest, CRYPT_TYPE_LOC) ELSE 0
        cryptoPublicKeyLength == CRYPTO_PUBLIC_KEY_LENGTHS[cryptoPublicKeyType]
        signingPublicKeyLength == SIGNING_PUBLIC_KEY_LENGTHS[signingPublicKeyType]
        signingRemainder == signingPublicKeyLength - PARTIAL_SIGNIN_MAX
        padding == Max(0, CERT_TYPE_LOC - cryptoPublicKeyLength - signingPublicKeyLength)
        publicSigningStartLoc == Min(cryptoPublicKeyLength, PARTIAL_CRYPTO_MAX) + padding
        publicSigningBuffer ==
          BufSubarray(dest, publicSigningStartLoc, CERT_TYPE_LOC)
            \o BufSubarray(dest, SIGN_REMAI_LOC, SIGN_REMAI_LOC + signingRemainder)
        byteLength == cryptoPublicKeyLength + padding + signingPublicKeyLength + 3
                        + (IF certType = DESTINATION_CERT_TYPE_KEY THEN 4 ELSE 0)
    IN [throw |-> Len(publicSigningBuffer) # signingPublicKeyLength,
        byteLength |-> byteLength, certType |-> certType,
        signingPublicKeyType |-> signingPublicKeyType,
        publicSigningKey |-> publicSigningBuffer,
        bytes |-> BufSubarray(dest, 0, byteLength)]

\* the key pairs of keyPairMap have the length of their type, except that a
\* DSA public key with leading zero bytes converts to a shorter buffer
KeyPairLengths(signingType) ==
  {SIGNING_PUBLIC_KEY_LENGTHS[signingType]}
    \cup (IF signingType = DSA_SHA1 THEN {SIGNING_PUBLIC_KEY_LENGTHS[signingType] - 1} ELSE {})

\* the bytes that stand for random key material
KeyBytes == {0, 1, 255}

DsInit ==
  dsParsed = [signingType |-> DSA_SHA1, generated |-> FALSE, buffer |-> <<>>, extra |-> 0,
              destination |-> Destination(<<>>)]

\* generateLocalDestination(signingType), and the destination parsed again
\* from its bytes followed by extra bytes
DsGenerate(signingType, publicKeyLength, keyByte, cryptoByte, extra) ==
  LET g == GenerateDestinationBuffer(signingType, publicKeyLength, keyByte, cryptoByte)
  IN /\ dsParsed' = [signingType |-> signingType, generated |-> ~g.throw, buffer |-> g.buffer,
                     extra |-> extra,
                     destination |-> Destination(g.buffer \o Fill(extra, 9))]
     /\ UNCHANGED <<pvChecked, sgChecked, pmParsed, NotFn>>

DsNext ==
  \E signingType \in SigningTypes, keyByte \in KeyBytes, cryptoByte \in KeyBytes,
     extra \in {0, 3} :
    \E publicKeyLength \in KeyPairLengths(signingType) :
      DsGenerate(signingType, publicKeyLength, keyByte, cryptoByte, extra)

\* the byteLength the destinations of each signing type have
ExpectedByteLength(signingType) ==
  CASE signingType = DSA_SHA1 -> 387
    [] signingType = EdDSA_SHA512_Ed25519 -> 391
    [] signingType = RedDSA_SHA512_Ed25519 -> 391
    [] signingType = ECDSA_SHA256_P256 -> 391
    [] signingType = ECDSA_SHA384_P384 -> 391
    [] signingType = ECDSA_SHA512_P521 -> 395

\* C22: the destination parsed from the bytes of a freshly generated one has
\* the byteLength of its signing type: DSA-SHA1 387, Ed25519 391,
\* RedDSA-Ed25519 391, ECDSA-P256 391, ECDSA-P384 391, ECDSA-P521 395.
C22_ByteLength ==
  dsParsed.generated =>
    /\ ~dsParsed.destination.throw
    /\ dsParsed.destination.byteLength = ExpectedByteLength(dsParsed.signingType)
    /\ dsParsed.destination.byteLength = Len(dsParsed.buffer)

\* an ECDSA-P521 destination, whose signing key spills over into the
\* certificate, was generated and parsed from a longer buffer
C22_Witness ==
  /\ dsParsed.generated
  /\ dsParsed.signingType = ECDSA_SHA512_P521
  /\ dsParsed.destination.byteLength = 395
  /\ dsParsed.extra > 0
  /\ dsParsed.destination.bytes = dsParsed.buffer
  /\ Len(dsParsed.destination.publicSigningKey) = 132

-----------------------------------------------------------------------------
(* Destination.verify and LocalDestination.sign *)

\* the signature schemes, as what they promise: a signature names the
\* scheme, the public key of the private key that made it and the data, and
\* verifies under exactly those; an altered signature verifies under nothing
PrimSign(alg, publicKey, data) ==
  [alg |-> alg, key |-> publicKey, data |-> data, altered |-> FALSE]
PrimVerify(alg, publicKey, data, signature) ==
  /\ ~signature.altered
  /\ signature.alg = alg
  /\ signature.key = publicKey
  /\ signature.data = data

\* the public key a private key stands for, per scheme: getPublicKey(..., false)
\* of the ECDSA curves starts with the byte 0x04
UNCOMPRESSED == 4
IsEcdsa(signingType) ==
  signingType \in {ECDSA_SHA256_P256, ECDSA_SHA384_P384, ECDSA_SHA512_P521}
PrimPublicKey(signingType, seed) ==
  IF IsEcdsa(signingType)
  THEN <<UNCOMPRESSED>> \o KeyMaterial(SIGNING_PUBLIC_KEY_LENGTHS[signingType], seed)
  ELSE KeyMaterial(SIGNING_PUBLIC_KEY_LENGTHS[signingType], seed)

\* keyPairMap[signingType](): the public key stored in the destination
KeyPairPublicKey(signingType, seed) ==
  IF IsEcdsa(signingType) THEN Tail(PrimPublicKey(signingType, seed))
  ELSE PrimPublicKey(signingType, seed)

\* LocalDestination.sign(data) with the private key of seed
LocalDestinationSign(destination, seed, data) ==
  LET t == destination.signingPublicKeyType
  IN IF t = EdDSA_SHA512_Ed25519 THEN PrimSign("Ed25519", PrimPublicKey(t, seed), data)
     ELSE IF t = DSA_SHA1 THEN PrimSign("DSA", PrimPublicKey(t, seed), data)
     ELSE IF t = RedDSA_SHA512_Ed25519 THEN PrimSign("RedDSA", PrimPublicKey(t, seed), data)
     ELSE IF t = ECDSA_SHA256_P256 THEN PrimSign("p256", PrimPublicKey(t, seed), data)
     ELSE IF t = ECDSA_SHA384_P384 THEN PrimSign("p384", PrimPublicKey(t, seed), data)
     ELSE IF t = ECDSA_SHA512_P521 THEN PrimSign("p521", PrimPublicKey(t, seed), data)
     ELSE PrimSign("throw", <<>>, data)

\* a verify that hands the ECDSA curves the key as stored
DestinationVerifyStoredKey(destination, data, signature) ==
  LET t == destination.signingPublicKeyType
      key == destination.publicSigningKey
  IN IF destination.certType = DESTINATION_CERT_TYPE_NULL \/ t = DSA_SHA1
     THEN PrimVerify("DSA", key, data, signature)
     ELSE IF t = EdDSA_SHA512_Ed25519 THEN PrimVerify("Ed25519", key, data, signature)
     ELSE IF t = RedDSA_SHA512_Ed25519 THEN PrimVerify("RedDSA", key, data, signature)
     ELSE IF t = ECDSA_SHA256_P256 THEN PrimVerify("p256", key, data, signature)
     ELSE IF t = ECDSA_SHA384_P384 THEN PrimVerify("p384", key, data, signature)
     ELSE IF t = ECDSA_SHA512_P521 THEN PrimVerify("p521", key, data, signature)
     ELSE FALSE

\* Destination.verify(data, signature)
DestinationVerify(destination, data, signature) ==
  LET t == destination.signingPublicKeyType
      key == destination.publicSigningKey
  IN IF destination.certType = DESTINATION_CERT_TYPE_NULL \/ t = DSA_SHA1
     THEN PrimVerify("DSA", key, data, signature)
     ELSE IF t = EdDSA_SHA512_Ed25519 THEN PrimVerify("Ed25519", key, data, signature)
     ELSE IF t = RedDSA_SHA512_Ed25519 THEN PrimVerify("RedDSA", key, data, signature)
     ELSE IF t = ECDSA_SHA256_P256
     THEN PrimVerify("p256", <<UNCOMPRESSED>> \o key, data, signature)
     ELSE IF t = ECDSA_SHA384_P384
     THEN PrimVerify("p384", <<UNCOMPRESSED>> \o key, data, signature)
     ELSE IF t = ECDSA_SHA512_P521
     THEN PrimVerify("p521", <<UNCOMPRESSED>> \o key, data, signature)
     ELSE FALSE

\* the data buffers signed
SignedData == {<<>>, <<0>>, <<1, 2>>, <<255, 0, 7>>}

SgInit ==
  sgChecked = [signingType |-> DSA_SHA1, seed |-> 0, data |-> <<>>, signed |-> FALSE,
               signature |-> PrimSign("", <<>>, <<>>), verified |-> FALSE]

\* a destination is generated from the key pair of seed and signs data; the
\* signature, as made or with a byte altered, is verified by the destination
SgSignVerify(signingType, seed, cryptoByte, data, altered) ==
  LET publicKey == KeyPairPublicKey(signingType, seed)
      g == GenerateDestinationBuffer(signingType, Len(publicKey), seed, cryptoByte)
      d == Destination(g.buffer)
      sig == LocalDestinationSign(d, seed, data)
      signature == [sig EXCEPT !.altered = altered]
  IN /\ ~g.throw
     /\ sgChecked' = [signingType |-> signingType, seed |-> seed, data |-> data,
                      signed |-> TRUE, signature |-> signature,
                      verified |-> DestinationVerify(d, data, signature)]
     /\ UNCHANGED <<pvChecked, dsParsed, pmParsed, NotFn>>

SgNext ==
  \E signingType \in SigningTypes, seed \in KeyBytes, data \in SignedData, altered \in BOOLEAN :
    SgSignVerify(signingType, seed, 0, data, altered)

\* C23: for each signing type and data buffer, a generated destination
\* verifies its own signature of the data, and does not verify that
\* signature with a byte altered.
C23_SignVerify ==
  sgChecked.signed => (sgChecked.verified <=> ~sgChecked.signature.altered)

\* an ECDSA-P521 destination has verified its own signature of a non-empty
\* buffer
C23_Witness ==
  /\ sgChecked.signed
  /\ sgChecked.signingType = ECDSA_SHA512_P521
  /\ sgChecked.data # <<>>
  /\ sgChecked.verified

-----------------------------------------------------------------------------
(* StreamSocket: the socket createStream opens for STREAM CONNECT *)

NoStreamSocket ==
  [env |-> "none", written |-> <<>>, helloCompleted |-> FALSE, hasStream |-> FALSE,
   registered |-> FALSE]

ScInit == scSocket = NoStreamSocket

\* createStream: new StreamSocket(...)
ScCreateStream ==
  /\ scSocket.env = "none"
  /\ scSocket' = [NoStreamSocket EXCEPT !.env = "connecting", !.registered = TRUE]
  /\ UNCHANGED NotSc

\* socket.once("connect"): sendHello
ScConnect ==
  /\ scSocket.env = "connecting"
  /\ scSocket' = [scSocket EXCEPT !.env = "hello", !.written = Append(@, "HELLO")]
  /\ UNCHANGED NotSc

\* the bridge answers HELLO: on "hello" helloCompleted resolves and its
\* then-callback writes STREAM CONNECT; anything else is an "error" event,
\* which rejects createStream
ScHelloReply(result) ==
  /\ scSocket.env = "hello"
  /\ LET r == ControlParseReply(HelloReplyLine(result))
         env == IF result = "OK" THEN "connect" ELSE "closed"
     IN scSocket' = IF r.emit = "hello" /\ ~scSocket.helloCompleted
                    THEN [scSocket EXCEPT !.env = env, !.helloCompleted = TRUE,
                                          !.written = Append(@, "STREAM CONNECT")]
                    ELSE [scSocket EXCEPT !.env = env]
  /\ UNCHANGED NotSc

\* the bridge answers STREAM CONNECT
ScStreamStatus(result) ==
  /\ scSocket.env = "connect"
  /\ LET r == ControlParseReply(StreamStatusLine(result))
         env == IF result = "OK" THEN "piping" ELSE "closed"
     IN scSocket' = IF r.emit = "stream"
                    THEN [scSocket EXCEPT !.env = env, !.hasStream = TRUE]
                    ELSE [scSocket EXCEPT !.env = env]
  /\ UNCHANGED NotSc

\* the control socket, an accept socket and a createStream socket side by
\* side: what each writes to the bridge and when
SamCommandNext ==
  \/ CtlConnect
  \/ \E c \in CallIds : GetOrCreateSubsession(c, <<"a", "STREAM">>)
  \/ \E c \in CallIds : PrimarySessionCreated(c)
  \/ \E c \in CallIds : AddSession(c)
  \/ \E c \in CallIds : SubsessionMapSet(c)
  \/ \E c \in CallIds : NameLookup(c, <<"n5">>)
  \/ \E c \in CallIds : PerformNameLookup(c)
  \/ \E result \in {"OK", "NOVERSION"} : CtlHelloReply(result)
  \/ \E result \in {"OK", "DUPLICATED_DEST"} : CtlSessionCreateReply(result)
  \/ CtlSessionAddReply
  \/ CtlNamingReply("OK", <<"d516">>)
  \/ AcCreateSession(0)
  \/ \E k \in AcSocketIds : AcConnect(k)
  \/ \E k \in AcSocketIds, result \in {"OK", "NOVERSION"} : AcHelloReply(k, result)
  \/ \E k \in AcSocketIds : AcStreamStatus(k, "OK")
  \/ ScCreateStream
  \/ ScConnect
  \/ \E result \in {"OK", "NOVERSION"} : ScHelloReply(result)
  \/ ScStreamStatus("OK")

\* the command a step appends to what a socket has written ("" when none)
Appended(before, after) ==
  IF Len(after) = Len(before) + 1 THEN after[Len(after)] ELSE ""

\* every socket starts with HELLO
HelloWrittenFirst ==
  /\ ctlWritten # <<>> => ctlWritten[1].cmd = "HELLO"
  /\ \A k \in AcSocketIds :
       acSockets[k].written # <<>> => acSockets[k].written[1] = "HELLO"
  /\ scSocket.written # <<>> => scSocket.written[1] = "HELLO"

\* a step that writes a command finds HELLO answered with RESULT=OK, and a
\* step that writes SESSION ADD finds the primary session confirmed
CommandsAfterHello ==
  /\ Len(ctlWritten') = Len(ctlWritten) + 1
       /\ ctlWritten'[Len(ctlWritten')].cmd \in {"CREATE", "ADD", "LOOKUP"}
     => ctlHello /\ ctlAnswered >= 1
  /\ Len(ctlWritten') = Len(ctlWritten) + 1 /\ ctlWritten'[Len(ctlWritten')].cmd = "ADD"
     => /\ ctlPrimary = "resolved"
        /\ \E j \in 1..ctlAnswered : ctlWritten[j].cmd = "CREATE"
  /\ ~ctlHello /\ ctlHello' => CtlHelloReply("OK")
  /\ ctlPrimary # "resolved" /\ ctlPrimary' = "resolved" => CtlSessionCreateReply("OK")
  /\ \A k \in AcSocketIds :
       Appended(acSockets[k].written, acSockets'[k].written) = "STREAM ACCEPT"
         => acSockets[k].env = "hello" /\ acSockets'[k].env = "accept"
  /\ Appended(scSocket.written, scSocket'.written) = "STREAM CONNECT"
       => scSocket.env = "hello" /\ scSocket'.env = "connect"

-----------------------------------------------------------------------------
(* I2CP framing: decodeMessage and routeMessage on the router's byte stream *)

MaxMessages == 2

SetDateMessage == 33
SessionStatusMessage == 20
RequestVariableLeaseSetMessage == 37
MessageStatusMessage == 22
MessagePayloadMessage == 31
HostReplyMessage == 39
\* the message types routeMessage has a handler for
RoutedTypes == {SetDateMessage, SessionStatusMessage, RequestVariableLeaseSetMessage,
                MessageStatusMessage, MessagePayloadMessage, HostReplyMessage}

UInt32BE(n) == <<(n \div 16777216) % 256, (n \div 65536) % 256, (n \div 256) % 256, n % 256>>

\* u32 length, u8 type, payload: a message as the router puts it on the wire
WireMessage(type, payload) == UInt32BE(Len(payload)) \o <<type>> \o payload

\* decodeMessage(data): the length of the first 4 bytes, the type of the
\* fifth, and everything behind them as the message data; the reads throw
\* a RangeError on a shorter buffer
DecodeMessage(data) ==
  IF Len(data) < 5 THEN [throw |-> TRUE, messageType |-> 0, messageLength |-> 0,
                         messageData |-> <<>>]
  ELSE [throw |-> FALSE,
        messageType |-> ReadUInt8(data, 4),
        messageLength |-> ReadUInt16BE(data, 0) * 65536 + ReadUInt16BE(data, 2),
        messageData |-> SubSeq(data, 6, Len(data))]

\* routeMessage(data): the handler that runs ("default" for a type without
\* one, "throw" when decodeMessage throws) and the data it is given
RouteMessage(data) ==
  LET decoded == DecodeMessage(data)
  IN IF decoded.throw THEN [handler |-> "throw", type |-> 0, data |-> <<>>]
     ELSE IF decoded.messageType \in RoutedTypes
     THEN [handler |-> "handle", type |-> decoded.messageType, data |-> decoded.messageData]
     ELSE [handler |-> "default", type |-> decoded.messageType, data |-> decoded.messageData]

RtInit ==
  /\ rtWire = <<>>
  /\ rtSent = <<>>
  /\ rtHandled = <<>>

\* the router writes one message
RtRouterSends(type, payload) ==
  /\ Len(rtSent) < MaxMessages
  /\ rtSent' = Append(rtSent, [handler |-> "handle", type |-> type, data |-> payload])
  /\ rtWire' = rtWire \o WireMessage(type, payload)
  /\ UNCHANGED <<rtHandled, NotRt>>

\* socket "data": TCP hands over the next n bytes, routeMessage runs on them
RtSocketData(n) ==
  /\ n \in 1..Len(rtWire)
  /\ rtHandled' = Append(rtHandled, RouteMessage(SubSeq(rtWire, 1, n)))
  /\ rtWire' = SubSeq(rtWire, n + 1, Len(rtWire))
  /\ UNCHANGED <<rtSent, NotRt>>

RtPayloads == {<<1>>, <<2, 3>>}

RtNext ==
  \/ \E type \in {SetDateMessage, SessionStatusMessage}, payload \in RtPayloads :
       RtRouterSends(type, payload)
  \/ \E n \in 1..(MaxMessages * 7) : RtSocketData(n)

\* C33 (as claimed): however TCP chunks the router's bytes, every complete
\* message is dispatched exactly once, in order, to the handler of its type
\* with exactly its own payload: once all bytes are handed over, what was
\* dispatched is what was sent.
C33_EveryMessageDispatchedOnce ==
  rtWire = <<>> => rtHandled = rtSent

-----------------------------------------------------------------------------
(* createStream: how long an initiated stream stays in session.streams *)

NoStream ==
  [created |-> FALSE, registered |-> FALSE, finished |-> FALSE, ended |-> FALSE,
   closed |-> FALSE, routed |-> 0, dropped |-> FALSE]

CsInit == csStreams = [k \in 1..MaxStreams |-> NoStream]

\* createStream(destination): the k-th socket is put into this.streams under
\* its streamId and given listeners for "close", "finish" and "end"
CsCreateStream(k) ==
  /\ ~csStreams[k].created
  /\ \A j \in 1..(k - 1) : csStreams[j].created
  /\ csStreams' = [csStreams EXCEPT ![k].created = TRUE, ![k].registered = TRUE]
  /\ UNCHANGED NotCs

\* the application ends the writable side and the writes are flushed: the
\* stream emits "finish", and the listener deletes this.streams[streamId]
CsFinish(k) ==
  /\ csStreams[k].created /\ ~csStreams[k].finished /\ ~csStreams[k].closed
  /\ csStreams' = [csStreams EXCEPT ![k].finished = TRUE, ![k].registered = FALSE]
  /\ UNCHANGED NotCs

\* the remote ends its side and the data is read: the stream emits "end",
\* and the listener deletes this.streams[streamId]
CsEnd(k) ==
  /\ csStreams[k].created /\ ~csStreams[k].ended /\ ~csStreams[k].closed
  /\ csStreams' = [csStreams EXCEPT ![k].ended = TRUE, ![k].registered = FALSE]
  /\ UNCHANGED NotCs

\* the stream is closed (destroyed, or both sides done): it emits "close",
\* and the listener deletes this.streams[streamId]
CsClose(k) ==
  /\ csStreams[k].created /\ ~csStreams[k].closed
  /\ csStreams' = [csStreams EXCEPT ![k].closed = TRUE, ![k].registered = FALSE]
  /\ UNCHANGED NotCs

\* handleMessagePayloadMessage for a data packet of the remote addressed to
\* stream k (sendStreamId is the stream's id, no SYNC): handed to the stream
\* found in this.streams, dropped when none is found
CsPacket(k) ==
  /\ csStreams[k].created
  /\ csStreams[k].routed < MaxSeq
  /\ LET packet == Packet(LocalStreamId(k), RemoteStreamId, csStreams[k].routed + 1, FALSE)
         found == \E j \in 1..MaxStreams :
                    /\ csStreams[j].registered
                    /\ LocalStreamId(j) \in {packet.receiveStreamId, packet.sendStreamId}
     IN csStreams' = IF found
                     THEN [csStreams EXCEPT ![k].routed = @ + 1]
                     ELSE [csStreams EXCEPT ![k].dropped = TRUE]
  /\ UNCHANGED NotCs

CsNext ==
  \/ \E k \in 1..MaxStreams : CsCreateStream(k)
  \/ \E k \in 1..MaxStreams : CsFinish(k)
  \/ \E k \in 1..MaxStreams : CsEnd(k)
  \/ \E k \in 1..MaxStreams : CsClose(k)
  \/ \E k \in 1..MaxStreams : CsPacket(k)

\* C40 (as claimed): a stream made by createStream stays in the session's
\* stream map, and the packets addressed to it are routed to it, until it is
\* closed; "finish" alone or "end" alone does not unregister it.
C40_RegisteredUntilClosed ==
  \A k \in 1..MaxStreams :
    (csStreams[k].created /\ ~csStreams[k].closed) =>
      csStreams[k].registered /\ ~csStreams[k].dropped

-----------------------------------------------------------------------------
(* I2CP handshake: what the session writes on each connection to the router *)

MaxConnections == 2
MaxLeaseRequests == 2
MaxHsSends == 1

\* the statuses a SessionStatus message carries
SessionStatuses ==
  {SESSION_STATUS_DESTROYED, SESSION_STATUS_CREATED, SESSION_STATUS_UPDATED,
   SESSION_STATUS_INVALID, SESSION_STATUS_REFUSED}

NoRouterTraffic == [dates |-> 0, statuses |-> 0, requests |-> 0, sends |-> 0]

\* socket.write(message): sent on an open socket, held by a connecting one,
\* failed (the callback logs the error) on a closed one
HsWrite(tcp, queue, wire, message) ==
  IF tcp = "open"
  THEN [queue |-> queue, wire |-> [wire EXCEPT ![Len(wire)] = Append(@, message)]]
  ELSE IF tcp = "connecting" THEN [queue |-> Append(queue, message), wire |-> wire]
  ELSE [queue |-> queue, wire |-> wire]

\* the constructor: connect, then write(I2CP_PROTOCOL_VERSION_BYTE) and
\* write(createDateGetMessage(...))
HsInit ==
  /\ hsTcp = "connecting"
  /\ hsQueue = <<"prelude", "GetDate">>
  /\ hsWire = <<<<>>>>
  /\ hsSessionId = Null
  /\ hsRouter = NoRouterTraffic
  /\ hsEvents = {}

\* socket "connect": the writes held back go out
HsSocketConnect ==
  /\ hsTcp = "connecting"
  /\ hsTcp' = "open"
  /\ hsWire' = [hsWire EXCEPT ![Len(hsWire)] = @ \o hsQueue]
  /\ hsQueue' = <<>>
  /\ UNCHANGED <<hsSessionId, hsRouter, hsEvents, NotHs>>

\* the connection fails or is closed: socket "error"/"close"; the writes
\* held back are lost
HsSocketClose ==
  /\ hsTcp \in {"connecting", "open"}
  /\ hsTcp' = "closed"
  /\ hsQueue' = <<>>
  /\ UNCHANGED <<hsWire, hsSessionId, hsRouter, hsEvents, NotHs>>

\* the reconnect interval fires: this.socket.connect(socketConfig)
HsReconnect ==
  /\ hsTcp = "closed"
  /\ Len(hsWire) < MaxConnections
  /\ hsTcp' = "connecting"
  /\ hsWire' = Append(hsWire, <<>>)
  /\ hsRouter' = NoRouterTraffic
  /\ UNCHANGED <<hsQueue, hsSessionId, hsEvents, NotHs>>

\* the messages of one kind the router has received on the present connection
HsReceived(kind) ==
  Cardinality({i \in 1..Len(hsWire[Len(hsWire)]) : hsWire[Len(hsWire)][i] = kind})

\* the router answers GetDate with SetDate: handleSetDateMessage writes
\* CreateSession unless a session id is held
HsSetDateMessage ==
  /\ hsTcp = "open"
  /\ hsRouter.dates < HsReceived("GetDate")
  /\ hsRouter' = [hsRouter EXCEPT !.dates = @ + 1]
  /\ LET w == IF hsSessionId = Null
              THEN HsWrite(hsTcp, hsQueue, hsWire, "CreateSession")
              ELSE [queue |-> hsQueue, wire |-> hsWire]
     IN hsQueue' = w.queue /\ hsWire' = w.wire
  /\ UNCHANGED <<hsTcp, hsSessionId, hsEvents, NotHs>>

\* the router answers CreateSession with SessionStatus: session_created is
\* emitted for CREATED, and the session id of the message is kept
HsSessionStatusMessage(sessionId, status) ==
  /\ hsTcp = "open"
  /\ hsRouter.statuses < HsReceived("CreateSession")
  /\ hsRouter' = [hsRouter EXCEPT !.statuses = @ + 1]
  /\ hsEvents' = IF status = SESSION_STATUS_CREATED
                 THEN hsEvents \cup {"session_created"}
                 ELSE hsEvents
  /\ hsSessionId' = sessionId
  /\ UNCHANGED <<hsTcp, hsQueue, hsWire, NotHs>>

\* the router sends RequestVariableLeaseSet: handleRequestVariableLeaseSetMessage
\* writes CreateLeaseSet2
HsRequestVariableLeaseSetMessage ==
  /\ hsTcp = "open"
  /\ hsRouter.statuses > 0
  /\ hsRouter.requests < MaxLeaseRequests
  /\ hsRouter' = [hsRouter EXCEPT !.requests = @ + 1]
  /\ LET w == HsWrite(hsTcp, hsQueue, hsWire, "CreateLeaseSet2")
     IN hsQueue' = w.queue /\ hsWire' = w.wire
  /\ hsEvents' = hsEvents \cup {"leaseset_created"}
  /\ UNCHANGED <<hsTcp, hsSessionId, NotHs>>

\* the application sends a datagram: it throws without a session id;
\* otherwise SendMessage is written
HsSendDatagram ==
  /\ hsRouter.sends < MaxHsSends
  /\ hsRouter' = [hsRouter EXCEPT !.sends = @ + 1]
  /\ IF NoSessionId(hsSessionId)
     THEN /\ hsEvents' = hsEvents \cup {"send throws"}
          /\ UNCHANGED <<hsQueue, hsWire>>
     ELSE /\ LET w == HsWrite(hsTcp, hsQueue, hsWire, "SendMessage")
             IN hsQueue' = w.queue /\ hsWire' = w.wire
          /\ hsEvents' = hsEvents \cup {"send accepted"}
  /\ UNCHANGED <<hsTcp, hsSessionId, NotHs>>

HsNext ==
  \/ HsSocketConnect
  \/ HsSocketClose
  \/ HsReconnect
  \/ HsSetDateMessage
  \/ \E sessionId \in SessionIds, status \in SessionStatuses :
       HsSessionStatusMessage(sessionId, status)
  \/ HsRequestVariableLeaseSetMessage
  \/ HsSendDatagram

\* every connection the router has accepted carries the prelude first and
\* once, then GetDate
HsPreludeFirst ==
  \A c \in 1..Len(hsWire) :
    (c = Len(hsWire) /\ hsTcp = "open") =>
      /\ Len(hsWire[c]) >= 2
      /\ hsWire[c][1] = "prelude" /\ hsWire[c][2] = "GetDate"
      /\ \A i \in 2..Len(hsWire[c]) : hsWire[c][i] # "prelude"

\* CreateSession answers a SetDate while no session id is held, and
\* CreateLeaseSet2 answers a RequestVariableLeaseSet, one for one
HsAnswersOnly ==
  LET before == hsWire[Len(hsWire)]
      after == hsWire'[Len(hsWire')]
      wrote(kind) == /\ Len(hsWire') = Len(hsWire)
                     /\ Len(after) = Len(before) + 1
                     /\ after[Len(after)] = kind
  IN /\ wrote("CreateSession")
          => hsSessionId = Null /\ hsRouter'.dates = hsRouter.dates + 1
     /\ wrote("CreateLeaseSet2") => hsRouter'.requests = hsRouter.requests + 1
     /\ hsRouter'.requests = hsRouter.requests + 1 => wrote("CreateLeaseSet2")

\* C34 (as claimed): on every connection to the router, a re-established one
\* included, the session writes the prelude byte first and once, then
\* GetDate; CreateSession only in answer to SetDate and never with a session
\* id held; CreateLeaseSet2 only in answer to RequestVariableLeaseSet, one
\* per request.
C34_HandshakeOrder ==
  []HsPreludeFirst /\ [][HsAnswersOnly]_vars

\* C35 (as claimed): the session holds a session id only if a SessionStatus
\* with status CREATED was received; a status DESTROYED, INVALID or REFUSED
\* emits no session_created and leaves no session that accepts sends.
C35_SessionOnlyWhenCreated ==
  /\ ~NoSessionId(hsSessionId) => "session_created" \in hsEvents
  /\ "send accepted" \in hsEvents => "session_created" \in hsEvents

-----------------------------------------------------------------------------
(* parseMessage on reply lines with quoted values and "=" inside values *)

MaxArgs == 2

REPLY_DEST == <<"DEST", SP, "REPLY">>
PmTypes == {REPLY_HELLO, REPLY_SESSION, REPLY_DEST}
PmKeys == {"RESULT", "MESSAGE", "PUB"}
\* the values of the lines: a plain word, Base64 text ending in padding, and
\* quoted texts holding a space or a "="
PmValues ==
  { [text |-> <<"OK">>, quoted |-> FALSE],
    [text |-> <<"FZXi", EQ, EQ>>, quoted |-> FALSE],
    [text |-> <<"Unknown", SP, "STYLE">>, quoted |-> TRUE],
    [text |-> <<"a", EQ, "b">>, quoted |-> TRUE] }
PmArgs == [key : PmKeys, value : PmValues]
PmArgLists == UNION {[1..n -> PmArgs] : n \in 1..MaxArgs}

\* KEY=VALUE or KEY="VALUE" as the bridge writes it
ArgWord(a) ==
  <<a.key, EQ>> \o (IF a.value.quoted THEN <<QT>> \o a.value.text \o <<QT>>
                    ELSE a.value.text)

RECURSIVE ArgWords(_)
ArgWords(args) ==
  IF args = <<>> THEN <<>> ELSE <<SP>> \o ArgWord(Head(args)) \o ArgWords(Tail(args))

\* "<word> <word> KEY=VALUE ..."
ReplyLine(type, args) == type \o ArgWords(args)

NoParse == [type |-> <<>>, args |-> <<>>, parsed |-> ParseMessage(<<>>), throws |-> FALSE]

PmInit == pmParsed = NoParse

\* parseMessage(line) for one line of the bridge
PmParse(type, args) ==
  LET parsed == ParseMessage(ReplyLine(type, args))
  IN /\ pmParsed = NoParse
     /\ pmParsed' = [type |-> type, args |-> args, parsed |-> parsed,
                     throws |-> MsgThrows(parsed)]
     /\ UNCHANGED <<pvChecked, dsParsed, sgChecked, NotFn>>

PmNext == \E type \in PmTypes, args \in PmArgLists : PmParse(type, args)

\* the text the line carries for a key: that of the last argument with the key
PmExpected(args, key) ==
  LET hits == {i \in 1..Len(args) : args[i].key = key}
  IN IF hits = {} THEN UndefinedStr
     ELSE args[CHOOSE i \in hits : \A j \in hits : j <= i].value.text

\* C24: parseMessage returns the first two words of a reply line as its type
\* and one argument for every KEY=VALUE of the line: a space inside double
\* quotes does not split the argument, the value is everything behind the
\* first "=" (a "=" inside the value stays) and a quoted value is returned
\* without its quotes.
C24_ParseMessage ==
  pmParsed # NoParse =>
    /\ ~pmParsed.throws
    /\ pmParsed.parsed.type = pmParsed.type
    /\ Len(pmParsed.parsed.pargs) = Len(pmParsed.args)
    /\ \A key \in PmKeys :
         MsgArg(pmParsed.parsed, key) = PmExpected(pmParsed.args, key)

\* a line with MESSAGE="Unknown STYLE" and a PUB ending in "==" was parsed
C24_Witness ==
  /\ pmParsed # NoParse
  /\ Len(pmParsed.args) = 2
  /\ pmParsed.args[1] = [key |-> "MESSAGE",
                         value |-> [text |-> <<"Unknown", SP, "STYLE">>, quoted |-> TRUE]]
  /\ pmParsed.args[2] = [key |-> "PUB",
                         value |-> [text |-> <<"FZXi", EQ, EQ>>, quoted |-> FALSE]]
  /\ MsgArg(pmParsed.parsed, "MESSAGE") = <<"Unknown", SP, "STYLE">>
  /\ MsgArg(pmParsed.parsed, "PUB") = <<"FZXi", EQ, EQ>>


Init == DgInit /\ AcInit /\ CtlInit /\ I2Init /\ StInit /\ I2xInit /\ acCleanups = 0 /\ ScInit /\ RtInit /\ HsInit /\ CsInit /\ SnInit
        /\ PvInit /\ DsInit /\ SgInit /\ PmInit

SpecDatagram == Init /\ [][DgNext]_vars
SpecSignVerify == Init /\ [][SgNext]_vars
SpecParseMessage == Init /\ [][PmNext]_vars
\* a timer that was set fires: the 10 s timer of every pending lookup
SpecI2cpLive == Init /\ [][I2Next]_vars /\ \A c \in I2CallIds : WF_vars(I2LookupTimeout(c))
SpecI2cpLookupIds == Init /\ [][I2LookupIdNext]_vars
SpecI2cpStatus == Init /\ [][I2StatusNext]_vars
SpecCreateStream == Init /\ [][CsNext]_vars
SpecI2cpHandshake == Init /\ [][HsNext]_vars
SpecI2cpFraming == Init /\ [][RtNext]_vars
SpecSamFraming == Init /\ [][AcFramingNext]_vars
SpecAcceptErrors == Init /\ [][AcErrorNext]_vars
\* setImmediate and setTimeout callbacks run: a scheduled acceptNext is not
\* postponed forever
SpecAcceptLive == Init /\ [][AcNext]_vars /\ WF_vars(AcAcceptNext)
SpecSamCommands == Init /\ [][SamCommandNext]_vars
SpecDestination == Init /\ [][DsNext]_vars
SpecPacketVerify == Init /\ [][PvNext]_vars
SpecStreamSend == Init /\ [][SnNext]_vars
SpecSamSockets == Init /\ [][SamSocketNext]_vars
SpecAccept == Init /\ [][AcNext]_vars
SpecControl == Init /\ [][CtlNext]_vars
SpecI2cp == Init /\ [][I2Next]_vars
SpecI2cpReceive == Init /\ [][I2RxNext]_vars
SpecI2cpMessages == Init /\ [][I2MsgNext]_vars
SpecStream == Init /\ [][StNext]_vars

====
